---- MODULE Spec2Model ----
(***************************************************************************)
(* Request lifecycle of a bob-control Room (src/src/server/room.js) and of *)
(* the agent session behind it (ClaudeAgent, src/unnamed/part_002).        *)
(*                                                                         *)
(* One step of the model is one turn of the Node event loop: a call made   *)
(* by the gateway (sendToAgent, cancel, resetStatus, destroy), a timer     *)
(* callback, or an event of a subprocess.  Promise continuations run as    *)
(* microtasks before the next turn, so the continuation of sendToAgent     *)
(* (its try / catch / finally) is part of the turn that settles the race.  *)
(***************************************************************************)
EXTENDS Integers, Sequences, FiniteSets, TLC

\* ---------------------------------------------------------------- bounds
MaxRequests == 2     \* sendToAgent closures alive at the same time
MaxProcs == 2        \* subprocess objects alive at the same time
MaxMessages == 1     \* options.maxMessages of the room under test
MaxCapacity == 2     \* largest options.maxMessages while the history is followed
JoinDepth == 2       \* appends followed beyond a history of HistorySlice messages
MaxCount == 3        \* saturation of the observation counter sysCount
MaxClients == 2      \* connections that join the room
ObsRequests == 1     \* closures alive at the same time while observers are followed
ObsProcs == 1        \* subprocess objects alive at the same time while they are

NoReq == 0
NoProc == 0
Stale == -1          \* a resolve/reject pair whose race has already settled
Requests == 1..MaxRequests
Procs == 1..MaxProcs
Clients == 1..MaxClients

Contents == {"fix the login bug"}
Replies == {"done"}
ExitCodes == {0, 1}
Outputs == {"", "partial"}

VARIABLES
  status,          \* room.status
  messages,        \* room.messages
  maxMessages,     \* room.maxMessages
  currentRequest,  \* room.currentRequest: NoReq or the request it holds
  hasAgent,        \* room.agent !== null
  agentStatus,     \* agent.status
  process,         \* agent.process: NoProc or a subprocess
  isInteractive,   \* agent.isInteractive
  currentSettle,   \* agent.currentResolve / currentReject: the request they settle
  procs,           \* the live subprocess objects, in order of creation
  reqs,            \* the live closures of sendToAgent calls, in order of creation
  out,             \* payloads handed to room.broadcast during the last turn
  last,            \* the last turn: its operation, and what it returned or how it settled a call
  sysCount,        \* system messages appended since the last cancel() that returned true
  watch,           \* one accepted call, singled out to be followed until it settles
  clients,         \* room.clients: the entries of the Map, in insertion order
  sent,            \* per connection, the payloads its ws.send was given during the last turn
  worktrees,       \* gitManager.worktrees: workspaceId -> record
  disk,            \* what is found at each worktree path of the host
  tmpdir,          \* os.tmpdir() of the host
  hasRequire,      \* whether the loader of the build defines require in module scope
  gitLast,         \* the last call of the GitManager and how it ended
  cleanup,         \* the cleanupAllWorktrees call: its iterator, its errors, how it ended
  mgr,             \* roomManager.rooms, and the room's directory, metadata and agent directory
  gw,              \* the event the gateway sent to the connection in answer to its last message
  naming,          \* room.name, whether it is a custom name, and the last naming call
  sess,            \* the agent session followed on its own: its subprocesses and force-kill timers
  stdio,           \* a subprocess output stream: what is still to be delivered, agent.buffer, the events emitted
  srv              \* the gateway with its registry: connections, rooms, worktrees, calls in flight

roomVars == <<status, messages, currentRequest, hasAgent, agentStatus, process,
              isInteractive, currentSettle, procs, reqs, out, last, sysCount, watch,
              clients, sent, maxMessages>>
gitVars == <<worktrees, disk, tmpdir, hasRequire, gitLast, cleanup>>
mgrVars == <<mgr, gw, naming, sess, stdio, srv>>
vars == <<roomVars, gitVars, mgrVars>>

\* ------------------------------------------------------------ the state
\* The handlers are sequential code: each is written as a function from the
\* state at the start of the turn to the state at its end.
Counting == \E r \in DOMAIN reqs : reqs[r].state = "inflight" /\ reqs[r].cancelled

Cur ==
  [status |-> status, messages |-> messages, currentRequest |-> currentRequest,
   hasAgent |-> hasAgent, agentStatus |-> agentStatus,
   process |-> process, isInteractive |-> isInteractive,
   currentSettle |-> currentSettle, procs |-> procs, reqs |-> reqs,
   out |-> <<>>, last |-> [op |-> "", ret |-> ""],
   sysCount |-> IF Counting THEN sysCount ELSE 0, watch |-> watch,
   clients |-> clients, sent |-> [c \in Clients |-> <<>>], raised |-> FALSE,
   maxMessages |-> maxMessages]

\* Objects nothing refers to any more are dropped at the end of the turn: the
\* closure of a settled call whose timers are all cleared, a subprocess object
\* that has exited and is not agent.process.  The objects that remain keep their
\* order, and a reference to the i-th object follows it to its new position.  A
\* resolve/reject pair of a race that has settled is inert and becomes Stale.
GoneReq(x) == x.state = "settled" /\ ~x.checkCancelled
KeptReq(x) == ~GoneReq(x)
KeptProc(x) == x.state # "gone"

collect(st) ==
  LET newReq(r) == Cardinality({q \in 1..r : KeptReq(st.reqs[q])})
      refReq(x) == IF x \in DOMAIN st.reqs
                     THEN IF st.reqs[x].state = "settled" THEN Stale ELSE newReq(x)
                     ELSE x
      goneProc(p) == st.procs[p].state = "exited" /\ st.process # p
      newProc(p) == Cardinality({q \in 1..p : ~goneProc(q)})
      marked == [p \in DOMAIN st.procs |->
                   IF goneProc(p)
                     THEN [st.procs[p] EXCEPT !.state = "gone"]
                     ELSE [st.procs[p] EXCEPT !.req = refReq(@)]]
  IN [st EXCEPT
        !.currentRequest = IF @ = NoReq THEN NoReq ELSE newReq(@),
        !.currentSettle = refReq(@),
        !.watch = IF @ = NoReq THEN NoReq ELSE newReq(@),
        !.process = IF @ = NoProc THEN NoProc ELSE newProc(@),
        !.reqs = SelectSeq(@, KeptReq),
        !.procs = SelectSeq(marked, KeptProc)]

RoomCommit(st0) ==
  \E s0 \in {st0} : \E st \in {collect(s0)} :
     /\ status' = st.status
     /\ messages' = st.messages
     /\ currentRequest' = st.currentRequest
     /\ hasAgent' = st.hasAgent
     /\ agentStatus' = st.agentStatus
     /\ process' = st.process
     /\ isInteractive' = st.isInteractive
     /\ currentSettle' = st.currentSettle
     /\ procs' = st.procs
     /\ reqs' = st.reqs
     /\ out' = st.out
     /\ last' = st.last
     /\ sysCount' = st.sysCount
     /\ watch' = st.watch
     /\ clients' = st.clients
     /\ sent' = st.sent
     /\ maxMessages' = st.maxMessages

Commit(st0) ==
  /\ RoomCommit(st0)
  /\ UNCHANGED <<gitVars, mgrVars>>

\* the turn's operation; ret is what a call returned, and stays as the
\* continuation of sendToAgent left it when the turn settled a call
Returned(st, op, ret) ==
  [st EXCEPT !.last = [op |-> op, ret |-> IF ret = "" THEN st.last.ret ELSE ret]]

\* -------------------------------------------------------------- Room
StatusEvent(s) == [type |-> "status", role |-> "", content |-> s]
MessageEvent(m) == [type |-> "message", role |-> m.role, content |-> m.content]
ClosedEvent == [type |-> "room_closed", role |-> "", content |-> ""]

\* a variant of wsSend whose payload overtakes the ones sent before it
wsSendFirst(st, client, data) ==
  IF client.raises
    THEN [st EXCEPT !.raised = TRUE]
    ELSE [st EXCEPT !.sent[client.id] = <<data>> \o @]

\* client.ws.send(payload): the connection is handed the payload, or the call
\* raises
wsSend(st, client, data) ==
  IF client.raises
    THEN [st EXCEPT !.raised = TRUE]
    ELSE [st EXCEPT !.sent[client.id] = Append(@, data)]

\* Op applied to the value of x: x is evaluated once, however often Op uses it
With(x, Op(_)) == CHOOSE r \in {Op(v) : v \in {x}} : TRUE

\* the for loop of broadcast from the i-th entry of the Map on
RECURSIVE sendFrom(_, _, _)
sendFrom(st0, data, i) ==
  With(st0, LAMBDA st :
    IF st.raised \/ i > Len(st.clients)
      THEN st
      ELSE IF st.clients[i].open
        THEN sendFrom(wsSend(st, st.clients[i], data), data, i + 1)
        ELSE sendFrom(st, data, i + 1))

\* room.broadcast(data); code that follows a raised exception does not run
broadcast(st0, data) ==
  With(st0, LAMBDA st :
    IF st.raised THEN st ELSE sendFrom([st EXCEPT !.out = Append(@, data)], data, 1))

\* a variant of Trim that drops the newest entries
TrimNewest(ms, n) == IF Len(ms) > n THEN SubSeq(ms, 1, n) ELSE ms

\* the while loop of addMessage: shift until the history fits
RECURSIVE Trim(_, _)
Trim(ms, n) == IF Len(ms) > n THEN Trim(Tail(ms), n) ELSE ms

\* system messages are counted while a cancelled call is in flight
Count(st, role) ==
  IF /\ role = "system" /\ st.sysCount < MaxCount
     /\ \E r \in DOMAIN st.reqs : st.reqs[r].state = "inflight" /\ st.reqs[r].cancelled
    THEN st.sysCount + 1
    ELSE st.sysCount

\* room.addMessage(role, content)
addMessage(st0, role, content) ==
  With(st0, LAMBDA st :
    LET message == [role |-> role, content |-> content]
        s1 == [st EXCEPT !.messages = Trim(Append(@, message), st.maxMessages),
                         !.sysCount = Count(st, role)]
    IN IF st.raised THEN st ELSE broadcast(s1, MessageEvent(message)))

\* process.kill('SIGTERM') of a child process: signals a live process and sets
\* its killed flag; on a process that has exited it does nothing
kill(st, p) ==
  IF st.procs[p].state = "running"
    THEN [st EXCEPT !.procs[p].killed = TRUE]
    ELSE st

\* if (this.agent && this.agent.process) this.agent.process.kill('SIGTERM')
killAgentProcess(st) ==
  IF st.hasAgent /\ st.process # NoProc THEN kill(st, st.process) ELSE st

\* clearTimeout(timeoutId) of request r
clearTimeoutOf(st, r) == [st EXCEPT !.reqs[r].timeoutId = FALSE]

\* agent.on('status', ...) of setAgent
onAgentStatus(st, s) ==
  IF st.hasAgent
    THEN broadcast([st EXCEPT !.status = s], StatusEvent(s))
    ELSE st

\* agent.on('message', ...) of setAgent
onAgentMessage(st, msg) ==
  IF st.hasAgent THEN addMessage(st, "agent", msg) ELSE st

\* agent.on('error', ...) of setAgent
onAgentError(st, text) ==
  IF st.hasAgent THEN addMessage(st, "system", "Agent error: " \o text) ELSE st

\* this.status = s; this.emit('status', s) in the agent
agentSetStatus(st, s) == onAgentStatus([st EXCEPT !.agentStatus = s], s)

\* a variant of finallyBlock that leaves currentRequest in place
finallyKeeps(st) == broadcast(st, StatusEvent(st.status))

\* finally { this.currentRequest = null; broadcast status }
finallyBlock(st) ==
  LET s1 == [st EXCEPT !.currentRequest = NoReq]
  IN broadcast(s1, StatusEvent(s1.status))

\* a variant of catchStatus that ignores the cancelled flag
catchStatusError(cancelled) == "error"

\* this.status = cancelled ? 'ready' : 'error'
catchStatus(cancelled) == IF cancelled THEN "ready" ELSE "error"

\* the call r has settled: it is no longer followed
unwatch(st, r) == [st EXCEPT !.watch = IF @ = r THEN NoReq ELSE @]

\* the continuation of sendToAgent after the race resolved
tryBlock(st, r) ==
  LET s1 == clearTimeoutOf(st, r)
      s2 == [s1 EXCEPT !.status = "ready",
                       !.reqs[r].state = "settled",
                       !.last.ret = "reply"]
  IN unwatch(finallyBlock(s2), r)

\* the continuation of sendToAgent after the race rejected with error `why`
catchBlock(st, r, why) ==
  LET s1 == clearTimeoutOf(st, r)
      s2 == killAgentProcess(s1)
      s3 == [s2 EXCEPT !.status = catchStatus(s2.reqs[r].cancelled)]
      s4 == addMessage(s3, "system", "Error: " \o why)
      s5 == [s4 EXCEPT !.reqs[r].state = "settled", !.last.ret = why]
  IN unwatch(finallyBlock(s5), r)

\* Promise.race: only the first resolution or rejection runs the continuation
racePending(st, r) == r \in DOMAIN st.reqs /\ st.reqs[r].state = "inflight"
raceResolve(st, r) == IF racePending(st, r) THEN tryBlock(st, r) ELSE st
raceReject(st, r, why) == IF racePending(st, r) THEN catchBlock(st, r, why) ELSE st

\* if (this.currentResolve) { this.currentResolve(result); both = null }
agentResolveCurrent(st) ==
  IF st.currentSettle # NoReq
    THEN [raceResolve(st, st.currentSettle) EXCEPT !.currentSettle = NoReq]
    ELSE st

\* if (this.currentReject) { this.currentReject(error); both = null }
agentRejectCurrent(st, why) ==
  IF st.currentSettle # NoReq
    THEN [raceReject(st, st.currentSettle, why) EXCEPT !.currentSettle = NoReq]
    ELSE st

\* -------------------------------------------------------------- Agent
\* spawn('claude', ...): a new subprocess becomes agent.process
spawn(st, mode, r) ==
  [st EXCEPT !.procs = Append(@, [state |-> "running", killed |-> FALSE,
                                  mode |-> mode, req |-> r]),
             !.process = Len(st.procs) + 1]

\* agent.sendInteractive(content)
sendInteractive(st, r) == agentSetStatus([st EXCEPT !.currentSettle = r], "busy")

\* agent.sendOneShot(content)
sendOneShot(st, r) == agentSetStatus(spawn(st, "oneshot", r), "busy")

\* if (this.isInteractive && this.process && !this.process.killed)
usesInteractive(st) ==
  st.isInteractive /\ st.process # NoProc /\ ~st.procs[st.process].killed

\* agent.send(content)
send(st, r) == IF usesInteractive(st) THEN sendInteractive(st, r) ELSE sendOneShot(st, r)

\* a variant of stop that leaves the agent idle
stopIdle(st) ==
  LET s1 == IF st.process # NoProc
              THEN [kill(st, st.process) EXCEPT !.process = NoProc]
              ELSE st
  IN agentSetStatus(s1, "idle")

\* a variant of stop that keeps the subprocess handle
stopKeepsHandle(st) ==
  LET s1 == IF st.process # NoProc THEN kill(st, st.process) ELSE st
  IN agentSetStatus(s1, "stopped")

\* agent.stop()
stop(st) ==
  LET s1 == IF st.process # NoProc
              THEN [kill(st, st.process) EXCEPT !.process = NoProc]
              ELSE st
  IN agentSetStatus(s1, "stopped")

\* ------------------------------------------------------------ actions
\* -------------------------------------------------------- GitManager
Workspaces == {"w1", "w2"}
GitRepos == {"/src/app", "/src/lib"}
RepoDirectories == GitRepos \cup {"/src/plain", "/src/notes.txt", "/src/gone"}
TmpDirs == {<<"tmp">>, <<"scratch">>}

\* import { join, basename } from 'path'
PathImports == {"join", "basename"}

\* existsSync(repoDirectory), statSync(repoDirectory).isDirectory(), isGitRepo
repoExists(d) == d # "/src/gone"
repoIsDirectory(d) == d # "/src/notes.txt"
isGitRepo(d) == d \in GitRepos

basename(d) ==
  CASE d = "/src/app" -> "app"
    [] d = "/src/lib" -> "lib"
    [] d = "/src/plain" -> "plain"
    [] d = "/src/notes.txt" -> "notes.txt"
    [] OTHER -> "gone"

\* paths are sequences of components; `${repoName}-${workspaceId}` under
\* join(tmpdir(), 'bob-control-worktrees')
worktreeName(d, w) == basename(d) \o "-" \o w
WorktreeNames == {worktreeName(d, w) : d \in GitRepos, w \in Workspaces}
worktreeBase(tmp) == Append(tmp, "bob-control-worktrees")
worktreePath(tmp, d, w) == Append(worktreeBase(tmp), worktreeName(d, w))

NoRecord == [path |-> <<>>, repoDirectory |-> ""]

\* what a worktree path holds: nothing, the worktree directory, a symbolic link
\* to a directory outside the base, or a link to a sibling inside the base
Kinds == {"absent", "dir", "outside", "noid"}

GitCur ==
  [worktrees |-> worktrees, disk |-> disk, tmpdir |-> tmpdir,
   hasRequire |-> hasRequire, last |-> gitLast, cleanup |-> cleanup]

\* the keys of the Map
tracked(wts) == {w \in Workspaces : wts[w] # NoRecord}

\* the iterator of a running cleanupAllWorktrees is live: a key deleted from
\* the Map is no longer ahead of it, a key added to the Map is
iterate(c, before, after) ==
  IF c.state # "running" THEN c
  ELSE [c EXCEPT !.todo = {w \in tracked(after) : w \in c.todo \/ before[w] = NoRecord}]

GitCommit(g) ==
  /\ worktrees' = g.worktrees
  /\ disk' = g.disk
  /\ gitLast' = g.last
  /\ cleanup' = iterate(g.cleanup, worktrees, g.worktrees)
  /\ UNCHANGED <<tmpdir, hasRequire>>

gitReturn(g, op, w, ret, path, manual, removed) ==
  [g EXCEPT !.last = [op |-> op, ws |-> w, ret |-> ret, path |-> path,
                      manual |-> manual, removed |-> removed]]

\* catch (error) { if (error.message.includes('already exists')) return {...} }
existingReturned(g, d, w) ==
  gitReturn(g, "createWorktree", w, "returned", worktreePath(g.tmpdir, d, w), FALSE, {})

\* gitManager.createWorktree(repoDirectory, branchName, workspaceId); gitOk is
\* whether git worktree add succeeds on a free path
createWorktree(g, d, w, gitOk) ==
  LET path == worktreePath(g.tmpdir, d, w)
      name == worktreeName(d, w)
      thrown(why) == gitReturn(g, "createWorktree", w, why, <<>>, FALSE, {})
  IN IF ~repoExists(d) THEN thrown("Repository directory does not exist")
     ELSE IF ~repoIsDirectory(d) THEN thrown("Repository directory is not a directory")
     ELSE IF ~isGitRepo(d) THEN thrown("not a git repository")
     ELSE IF g.disk[name] # "absent" THEN existingReturned(g, d, w)
     ELSE IF gitOk
       THEN gitReturn([g EXCEPT !.disk[name] = "dir",
                                !.worktrees[w] = [path |-> path, repoDirectory |-> d]],
                      "createWorktree", w, "returned", path, FALSE, {})
       ELSE thrown("git error")

\* realpathSync(path) of a worktree path
realpathSync(g, path) ==
  LET name == path[Len(path)]
  IN CASE g.disk[name] = "outside" -> <<"data", "user", name>>
       [] g.disk[name] = "noid" -> Append(worktreeBase(g.tmpdir), "other")
       [] OTHER -> path

\* p.startsWith(dir + sep); no path starts with '/' + sep
startsWithDir(p, dir) ==
  Len(dir) > 0 /\ Len(p) > Len(dir) /\ SubSeq(p, 1, Len(dir)) = dir

\* the entries of dangerousPaths, '/' first; the Windows entries as one
dangerousPaths ==
  << <<>>, <<"home">>, <<"root">>, <<"usr">>, <<"var">>, <<"etc">>, <<"tmp">>, <<"C:">> >>

\* the entries realpathSync finds on the host
onHost(sysPath) == sysPath # <<"C:">>

\* the three checks of the manual cleanup
insideBase(rp, base) == startsWithDir(rp, base)
isDangerous(rp) ==
  \E i \in DOMAIN dangerousPaths :
    rp = dangerousPaths[i] \/ startsWithDir(rp, dangerousPaths[i])
includesId(rp, w) ==
  \E i \in DOMAIN rp : \E d \in GitRepos : rp[i] = worktreeName(d, w)

\* the catch branch of removeWorktree when force is set and the path exists
manualCleanup(g, w, path) ==
  LET name == path[Len(path)]
      resolvedPath == realpathSync(g, path)
      resolvedBase == worktreeBase(g.tmpdir)
      thrown(why) == gitReturn(g, "removeWorktree", w, why, path, TRUE, {})
  IN IF ~g.hasRequire THEN thrown("ReferenceError")
     ELSE IF "sep" \notin PathImports THEN thrown("ReferenceError")
     ELSE IF ~insideBase(resolvedPath, resolvedBase) THEN thrown("SafetyViolation")
     ELSE IF isDangerous(resolvedPath) THEN thrown("SafetyViolation")
     ELSE IF \E i \in DOMAIN dangerousPaths : ~onHost(dangerousPaths[i]) THEN thrown("ENOENT")
     ELSE IF ~includesId(resolvedPath, w) THEN thrown("SafetyViolation")
     ELSE gitReturn([g EXCEPT !.disk[name] = "absent", !.worktrees[w] = NoRecord],
                    "removeWorktree", w, "true", path, TRUE, {name})

\* gitManager.removeWorktree(workspaceId, force); gitOk is whether git worktree
\* remove succeeds on a worktree directory
removeWorktree(g, w, force, gitOk) ==
  LET path == g.worktrees[w].path
      name == path[Len(path)]
  IN IF g.worktrees[w] = NoRecord
       THEN gitReturn(g, "removeWorktree", w, "false", <<>>, FALSE, {})
     ELSE IF gitOk /\ g.disk[name] = "dir"
       THEN gitReturn([g EXCEPT !.disk[name] = "absent", !.worktrees[w] = NoRecord],
                      "removeWorktree", w, "true", path, FALSE, {})
     ELSE IF force /\ g.disk[name] # "absent"
       THEN manualCleanup(g, w, path)
       ELSE gitReturn(g, "removeWorktree", w, "git error", path, FALSE, {})

\* const errors = []; for (const [workspaceId] of this.worktrees): the call
\* returns at once when the Map is empty
cleanupAllWorktrees(g) ==
  [g EXCEPT !.cleanup = [state |-> IF tracked(g.worktrees) = {} THEN "returned" ELSE "running",
                         todo |-> tracked(g.worktrees), errors |-> {},
                         start |-> tracked(g.worktrees)],
            !.last = [op |-> "cleanupAllWorktrees", ws |-> "", ret |-> "", path |-> <<>>,
                      manual |-> FALSE, removed |-> {}]]

\* the loop body without its try/catch: the first failure ends the call
cleanupVisitUncaught(g, w, gitOk) ==
  LET r == removeWorktree(g, w, TRUE, gitOk)
      failed == r.last.ret \notin {"true", "false"}
      todo == g.cleanup.todo \ {w}
  IN [r EXCEPT !.cleanup.todo = IF failed THEN {} ELSE todo,
               !.cleanup.state = IF failed THEN "thrown"
                                 ELSE IF todo = {} THEN "returned" ELSE "running"]

\* one iteration of the loop: try { await this.removeWorktree(workspaceId, true) }
\* catch (error) { errors.push({ workspaceId, error: error.message }) }, and
\* return errors after the last one
cleanupVisit(g, w, gitOk) ==
  LET r == removeWorktree(g, w, TRUE, gitOk)
      failed == r.last.ret \notin {"true", "false"}
      todo == g.cleanup.todo \ {w}
  IN [r EXCEPT !.cleanup.todo = todo,
               !.cleanup.errors = IF failed THEN @ \cup {[workspaceId |-> w, error |-> r.last.ret]}
                                  ELSE @,
               !.cleanup.state = IF todo = {} THEN "returned" ELSE "running"]

NoCleanup == [state |-> "idle", todo |-> {}, errors |-> {}, start |-> {}]

\* new GitManager()
GitConstructed ==
  /\ cleanup = NoCleanup
  /\ worktrees = [w \in Workspaces |-> NoRecord]
  /\ gitLast = [op |-> "new", ws |-> "", ret |-> "", path |-> <<>>,
                manual |-> FALSE, removed |-> {}]

\* a host on which no worktree operation takes place
NoGit ==
  /\ GitConstructed
  /\ disk = [n \in WorktreeNames |-> "absent"]
  /\ tmpdir = <<"tmp">>
  /\ hasRequire = FALSE

\* a text is a sequence of tokens followed by pad further characters; a token
\* counts as one character.  ellipsis is the '...' appended by a truncation
Plain(tokens) == [tokens |-> tokens, pad |-> 0, ellipsis |-> FALSE]
NoEvent == [type |-> "none", error |-> Plain(<<>>)]

\* new RoomManager(), and the fields of a room that createRoom fills in
NoManager ==
  [rooms |-> {}, id |-> "", requested |-> "", directory |-> <<>>, worktree |-> FALSE,
   originalDirectory |-> "", agentDirectory |-> <<>>, branched |-> "none",
   attempted |-> FALSE, created |-> FALSE, cleanupWorktree |-> FALSE,
   target |-> "", removal |-> "none", phase |-> "idle", last |-> [op |-> "new", ret |-> ""]]

\* new BobServer(): no connection, an empty registry, no worktree, no call
ServerRoomIds == {"r1", "r2"}
Conns == {"c1", "c2"}
NoConn == ""
NoRoom ==
  [phase |-> "none", owner |-> NoConn, agent |-> "none", status |-> "initializing",
   worktree |-> FALSE, clients |-> {}, history |-> 0, stops |-> 0, destroyed |-> 0,
   notified |-> [c \in Conns |-> 0]]
NoServer ==
  [rooms |-> {},
   room |-> [r \in ServerRoomIds |-> NoRoom],
   conns |-> [c \in Conns |-> [state |-> "new", rooms |-> {}, closedBy |-> {}]],
   tracked |-> <<>>, dirs |-> {},
   destroys |-> <<>>,
   all |-> [phase |-> "idle", visited |-> {}],
   last |-> [op |-> "new", room |-> ""]]

\* this.buffer = '' of the agent's constructor, and no subprocess output
NoStream ==
  [strategy |-> "none", input |-> <<>>, rest |-> <<>>, buffer |-> <<>>, events |-> <<>>]

\* new ClaudeAgent(): no subprocess, no timer
NoSession ==
  [procs |-> <<>>, process |-> NoProc, status |-> "idle", timers |-> <<>>,
   last |-> [op |-> "new", target |-> NoProc, signalled |-> NoProc]]

\* options.name of the constructor, or none; the name generated from the id
NoName == ""
CustomNames == {"my-custom-room", "new-name"}
Placeholder == "room-test-123"

\* this.name = options.name || `room-${this.id.slice(0, 8)}`
constructed(name) ==
  [name |-> IF name = NoName THEN Placeholder ELSE name, custom |-> name # NoName,
   last |-> [op |-> "new", arg |-> name, ret |-> ""],
   renamed |-> [oldName |-> NoName, newName |-> NoName]]

\* the constructor, but for options.name and options.maxMessages
ConstructedRoom ==
  /\ status = "initializing"
  /\ currentRequest = NoReq
  /\ hasAgent = FALSE
  /\ agentStatus = "idle"
  /\ process = NoProc
  /\ isInteractive \in BOOLEAN
  /\ currentSettle = NoReq
  /\ procs = <<>>
  /\ reqs = <<>>
  /\ out = <<>>
  /\ last = [op |-> "new", ret |-> ""]
  /\ sysCount = 0
  /\ watch = NoReq
  /\ clients = <<>>
  /\ sent = [c \in Clients |-> <<>>]
  /\ mgr = NoManager
  /\ gw = NoEvent
  /\ sess = NoSession
  /\ srv = NoServer

\* the constructor, but for options.maxMessages
InitRoom ==
  /\ ConstructedRoom
  /\ naming = constructed(NoName)
  /\ stdio = NoStream

Init ==
  /\ InitRoom
  /\ messages = <<>>
  /\ maxMessages = MaxMessages
  /\ NoGit

\* rooms constructed with each capacity up to MaxCapacity
HistoryInit ==
  /\ InitRoom
  /\ messages = <<>>
  /\ maxMessages \in 1..MaxCapacity
  /\ NoGit

\* RoomManager.createRoom, agent part: createAgent() starts the agent, then
\* room.setAgent(agent) attaches it
attachAgent(st) ==
  LET s1 == IF st.isInteractive THEN spawn(st, "interactive", NoReq) ELSE st
  IN [s1 EXCEPT !.agentStatus = "ready", !.hasAgent = TRUE, !.status = "ready"]

SetAgent ==
  /\ ~hasAgent /\ status = "initializing"
  /\ Commit(Returned(attachAgent(Cur), "setAgent", ""))

\* RoomManager.createRoom when createAgent() throws
AgentFailed ==
  /\ ~hasAgent /\ status = "initializing"
  /\ Commit(Returned([Cur EXCEPT !.status = "error"], "agentFailed", ""))

\* a variant of isBusy that never sees a busy room
isBusyNever(st) == FALSE

isBusy(st) == st.status = "busy"

\* the accepted part of room.sendToAgent(content, clientId), up to the await
acceptSend(st, content) ==
  LET r == Len(st.reqs) + 1
      s1 == broadcast([st EXCEPT !.status = "busy"], StatusEvent("busy"))
      s2 == addMessage(s1, "user", content)
      s3 == [s2 EXCEPT !.currentRequest = r,
                       !.reqs = Append(@, [state |-> "inflight", cancelled |-> FALSE,
                                           timeoutId |-> FALSE, checkCancelled |-> FALSE])]
      s4 == send(s3, r)
  IN [s4 EXCEPT !.reqs[r].timeoutId = TRUE,
                !.reqs[r].checkCancelled = TRUE]

\* room.sendToAgent(content, clientId); an accepted call needs room for one more
\* closure and, when it spawns, for one more subprocess
SendToAgent ==
  \E content \in Contents :
    IF ~hasAgent
      THEN Commit(Returned(Cur, "sendToAgent", "No agent attached to room"))
      ELSE IF isBusy(Cur)
        THEN Commit(Returned(Cur, "sendToAgent", "Busy"))
        ELSE /\ Len(reqs) < MaxRequests
             /\ usesInteractive(Cur) \/ Len(procs) < MaxProcs
             /\ \E follow \in BOOLEAN :
                  /\ follow => watch = NoReq
                  /\ LET s1 == acceptSend(Cur, content)
                         s2 == IF follow THEN [s1 EXCEPT !.watch = s1.currentRequest] ELSE s1
                     IN Commit(Returned(s2, "sendToAgent", "pending"))

hasPending(st) == st.currentRequest # NoReq

\* currentRequest.cancel()
requestCancel(st, r) ==
  LET s1 == [st EXCEPT !.reqs[r].cancelled = TRUE]
      s2 == clearTimeoutOf(s1, r)
  IN killAgentProcess(s2)

\* room.cancel() when there is a current request
cancelPending(st) ==
  LET s1 == requestCancel(st, st.currentRequest)
      s2 == addMessage([s1 EXCEPT !.sysCount = 0], "system", "Request cancelled")
  IN Returned(s2, "cancel", "true")

\* a variant of cancelIdle that appends the system message all the same
cancelIdleNoisy(st) ==
  Returned(addMessage(st, "system", "Request cancelled"), "cancel", "false")

\* room.cancel() when there is none
cancelIdle(st) == Returned(st, "cancel", "false")

\* room.cancel()
Cancel ==
  IF hasPending(Cur) THEN Commit(cancelPending(Cur)) ELSE Commit(cancelIdle(Cur))

\* a variant of resetStatus that leaves currentRequest in place
resetKeeps(st) ==
  LET s1 == [st EXCEPT !.status = "ready"]
      s2 == broadcast(s1, StatusEvent("ready"))
      s3 == addMessage(s2, "system", "Room status reset to ready")
  IN Returned(s3, "resetStatus", IF s3.raised THEN "raised" ELSE "true")

\* room.resetStatus() after its kill of the agent's subprocess
resetStatus(st) ==
  LET s1 == [st EXCEPT !.currentRequest = NoReq, !.status = "ready"]
      s2 == broadcast(s1, StatusEvent("ready"))
      s3 == addMessage(s2, "system", "Room status reset to ready")
  IN Returned(s3, "resetStatus", IF s3.raised THEN "raised" ELSE "true")

\* room.resetStatus()
ResetStatus ==
  IF hasAgent /\ process # NoProc
    THEN Commit(resetStatus(kill(Cur, process)))
    ELSE Commit(resetStatus(Cur))

\* client.ws.close(1000, 'Room closed') for every entry, then clients.clear()
closeClients(st) == IF st.raised THEN st ELSE [st EXCEPT !.clients = <<>>]

\* room.destroy() after its stop of the agent
destroy(st) == Returned(closeClients(broadcast(st, ClosedEvent)), "destroy", "")

\* room.destroy()
Destroy ==
  IF hasAgent THEN Commit(destroy(stop(Cur))) ELSE Commit(destroy(Cur))

\* the timeout timer of request r fires
TimeoutFires(r) ==
  /\ r \in DOMAIN reqs /\ reqs[r].timeoutId
  /\ LET s1 == [Cur EXCEPT !.reqs[r].timeoutId = FALSE]
     IN Commit(Returned(raceReject(s1, r, "Request timed out"), "timeout", ""))

\* a tick of the checkCancelled interval of request r that sees cancelled
CancelPoll(r) ==
  /\ r \in DOMAIN reqs /\ reqs[r].checkCancelled /\ reqs[r].cancelled
  /\ LET s1 == [Cur EXCEPT !.reqs[r].checkCancelled = FALSE]
     IN Commit(Returned(raceReject(s1, r, "Request cancelled"), "cancelPoll", ""))

\* setTimeout(() => clearInterval(checkCancelled), requestTimeout + 1000): it is
\* due after the timeout timer and after any tick that follows a cancel()
IntervalCleanup(r) ==
  /\ r \in DOMAIN reqs /\ reqs[r].checkCancelled /\ reqs[r].state = "settled"
  /\ Commit(Returned([Cur EXCEPT !.reqs[r].checkCancelled = FALSE], "intervalCleanup", ""))

\* a variant of handleResult that does not emit 'message'
handleResultSilent(st, text) == agentResolveCurrent(agentSetStatus(st, "ready"))

\* handleEvent case 'result' for a line written by an interactive subprocess
handleResult(st, text) ==
  LET s1 == agentSetStatus(st, "ready")
      s2 == onAgentMessage(s1, text)
  IN agentResolveCurrent(s2)

\* an interactive subprocess answers a prompt it was sent: currentResolve is
\* set from the write of the prompt until the answer or the exit
Prompted(p) ==
  /\ p \in DOMAIN procs
  /\ procs[p].state = "running" /\ procs[p].mode = "interactive"
  /\ currentSettle # NoReq

AgentResult(p) ==
  /\ Prompted(p)
  /\ \E text \in Replies : Commit(Returned(handleResult(Cur, text), "agentResult", ""))

\* handleEvent case 'error' for a line written by an interactive subprocess
handleError(st, text) == agentRejectCurrent(onAgentError(st, text), text)

AgentError(p) ==
  /\ Prompted(p)
  /\ Commit(Returned(handleError(Cur, "Unknown error"), "agentError", ""))

\* process.on('close') of the interactive subprocess p
closeInteractive(st, p) ==
  LET s1 == [st EXCEPT !.procs[p].state = "exited"]
      s2 == agentSetStatus(s1, "stopped")
  IN agentRejectCurrent(s2, "Process exited")

\* the code === 0 || fullResponse.trim() test of sendOneShot
oneShotSucceeded(code, output) == code = 0 \/ output # ""

\* proc.on('close') of the one-shot subprocess p
closeOneShot(st, p, code, output) ==
  LET r == st.procs[p].req
      s1 == [st EXCEPT !.procs[p].state = "exited", !.process = NoProc]
      s2 == agentSetStatus(s1, "ready")
  IN IF oneShotSucceeded(code, output)
       THEN raceResolve(onAgentMessage(s2, output), r)
       ELSE raceReject(s2, r, "Process exited")

\* the subprocess p exits and its streams close
ProcClose(p) ==
  /\ p \in DOMAIN procs /\ procs[p].state = "running"
  /\ \E code \in ExitCodes, output \in Outputs :
       IF procs[p].mode = "interactive"
         THEN Commit(Returned(closeInteractive(Cur, p), "exit", ""))
         ELSE Commit(Returned(closeOneShot(Cur, p, code, output), "close", ""))

\* proc.on('error') of the one-shot subprocess p
errorOneShot(st, p) ==
  LET r == st.procs[p].req
      s1 == [st EXCEPT !.procs[p].state = "exited", !.process = NoProc]
      s2 == agentSetStatus(s1, "error")
  IN raceReject(s2, r, "Spawn failed")

\* the one-shot subprocess p could not be spawned: it never ran, and no signal
\* was sent to it yet
ProcError(p) ==
  /\ p \in DOMAIN procs /\ procs[p].state = "running"
  /\ procs[p].mode = "oneshot" /\ ~procs[p].killed
  /\ Commit(Returned(errorOneShot(Cur, p), "error", ""))

\* process.on('error') of the interactive subprocess: this.status = 'error';
\* this.emit('error', error); reject(error) of the start that has resolved
errorInteractive(st, text) == onAgentError([st EXCEPT !.agentStatus = "error"], text)

\* the interactive subprocess p reports an error while it runs (a signal that
\* could not be delivered): no 'close' follows by itself
ProcCrash(p) ==
  /\ p \in DOMAIN procs /\ procs[p].state = "running"
  /\ procs[p].mode = "interactive"
  /\ Commit(Returned(errorInteractive(Cur, "kill EPERM"), "crash", ""))

\* ---------------------------------------------------------- observers
HistorySlice == 100
DefaultMaxMessages == 1000

\* a variant of lastSlice that keeps everything
wholeHistory(ms, n) == ms

\* this.messages.slice(-HistorySlice)
lastSlice(ms, n) == IF Len(ms) <= n THEN ms ELSE SubSeq(ms, Len(ms) - n + 1, Len(ms))

JoinedEvent(s, history) ==
  [type |-> "room_joined", role |-> "", content |-> s, history |-> history]

\* clientInfo.name || clientId.slice(0, 8)
ClientName(c) == "c" \o ToString(c)

Member(st, c) == \E i \in DOMAIN st.clients : st.clients[i].id = c
EntryOf(st, c) == CHOOSE i \in DOMAIN st.clients : st.clients[i].id = c

\* this.clients.set(clientId, ...): a key that is present keeps its place
clientsSet(st, c) ==
  LET entry == [id |-> c, open |-> TRUE, raises |-> FALSE]
  IN IF Member(st, c)
       THEN [st EXCEPT !.clients[EntryOf(st, c)] =
                         [entry EXCEPT !.raises = st.clients[EntryOf(st, c)].raises]]
       ELSE [st EXCEPT !.clients = Append(@, entry)]

\* room.addClient(ws, clientInfo)
addClient(st, c) ==
  LET s1 == clientsSet(st, c)
      s2 == wsSend(s1, s1.clients[EntryOf(s1, c)],
                   JoinedEvent(s1.status, lastSlice(s1.messages, HistorySlice)))
      s3 == addMessage(s2, "system", "Client " \o ClientName(c) \o " joined")
  IN Returned(s3, "addClient", IF s3.raised THEN "raised" ELSE ClientName(c))

\* join_room or create_room of a connection: it is open, its message was just read
AddClient(c) ==
  /\ Len(clients) < MaxClients \/ Member(Cur, c)
  /\ Member(Cur, c) => clients[EntryOf(Cur, c)].open
  /\ Commit(addClient(Cur, c))

\* this.clients.delete(clientId)
clientsDelete(st, c) ==
  LET others(x) == x.id # c
  IN [st EXCEPT !.clients = SelectSeq(@, others)]

\* room.removeClient(clientId)
removeClient(st, c) ==
  LET s1 == IF Member(st, c)
              THEN addMessage(clientsDelete(st, c), "system",
                              "Client " \o ClientName(c) \o " left")
              ELSE st
  IN Returned(s1, "removeClient",
              IF s1.raised THEN "raised" ELSE ToString(Len(s1.clients)))

\* leave_room of a connection, or handleDisconnect after its 'close' event
RemoveClient(c) ==
  IF Member(Cur, c) THEN Commit(removeClient(Cur, c)) ELSE Commit(removeClient(Cur, c))

\* the transport of a member leaves readyState OPEN; its 'close' event comes later
TransportCloses(c) ==
  /\ Member(Cur, c) /\ clients[EntryOf(Cur, c)].open
  /\ Commit(Returned([Cur EXCEPT !.clients[EntryOf(Cur, c)].open = FALSE],
                     "transportCloses", ""))

\* the transport of a member starts to fail: its send raises from now on
TransportFails(c) ==
  /\ Member(Cur, c) /\ clients[EntryOf(Cur, c)].open
  /\ ~clients[EntryOf(Cur, c)].raises
  /\ Commit(Returned([Cur EXCEPT !.clients[EntryOf(Cur, c)].raises = TRUE],
                     "transportFails", ""))

\* ---------------------------------------------------- specifications
Next ==
  \/ SetAgent
  \/ AgentFailed
  \/ SendToAgent
  \/ Cancel
  \/ ResetStatus
  \/ Destroy
  \/ \E r \in Requests : TimeoutFires(r)
  \/ \E r \in Requests : CancelPoll(r)
  \/ \E r \in Requests : IntervalCleanup(r)
  \/ \E p \in Procs : AgentResult(p)
  \/ \E p \in Procs : AgentError(p)
  \/ \E p \in Procs : ProcClose(p)
  \/ \E p \in Procs : ProcError(p)

Spec == Init /\ [][Next]_vars

\* the room and its agent, with the 'error' events of the interactive subprocess
CrashNext ==
  \/ Next
  \/ \E p \in Procs : ProcCrash(p)

CrashSpec == Init /\ [][CrashNext]_vars

\* timers that are armed eventually fire
Fairness ==
  /\ \A r \in Requests : WF_vars(TimeoutFires(r))
  /\ \A r \in Requests : WF_vars(CancelPoll(r))

FairSpec == Init /\ [][Next]_vars /\ Fairness

\* room.sendToAgent while observers are followed: an accepted call needs room
\* within the tighter bounds
ObservedSend ==
  /\ \/ ~hasAgent
     \/ isBusy(Cur)
     \/ Len(reqs) < ObsRequests /\ (usesInteractive(Cur) \/ Len(procs) < ObsProcs)
  /\ SendToAgent

\* the room with observers that join, leave and lose their connection
ObserverNext ==
  \/ SetAgent
  \/ AgentFailed
  \/ ObservedSend
  \/ Cancel
  \/ ResetStatus
  \/ Destroy
  \/ \E r \in Requests : TimeoutFires(r)
  \/ \E r \in Requests : CancelPoll(r)
  \/ \E r \in Requests : IntervalCleanup(r)
  \/ \E p \in Procs : AgentResult(p)
  \/ \E p \in Procs : AgentError(p)
  \/ \E p \in Procs : ProcClose(p)
  \/ \E p \in Procs : ProcError(p)
  \/ \E c \in Clients : AddClient(c)
  \/ \E c \in Clients : RemoveClient(c)
  \/ \E c \in Clients : TransportCloses(c)

ObserverSpec == Init /\ [][ObserverNext]_vars

\* a room without agent whose observers' transports may start to fail: the
\* operations that send to them without any agent involved
SendFailNext ==
  \/ Cancel
  \/ ResetStatus
  \/ Destroy
  \/ \E c \in Clients : AddClient(c)
  \/ \E c \in Clients : RemoveClient(c)
  \/ \E c \in Clients : TransportCloses(c)
  \/ \E c \in Clients : TransportFails(c)

SendFailSpec == Init /\ [][SendFailNext]_vars

\* the same room for each capacity
HistorySpec == HistoryInit /\ [][ObserverNext]_vars

\* the history of a room that one connection joined and left n / 2 times
JoinLeaveHistory(n) ==
  [i \in 1..n |-> [role |-> "system",
                    content |-> IF i % 2 = 1 THEN "Client " \o ClientName(1) \o " joined"
                                             ELSE "Client " \o ClientName(1) \o " left"]]

\* a room of default capacity after that connection joined and left until the
\* history holds HistorySlice messages
LongInit ==
  /\ InitRoom
  /\ messages = JoinLeaveHistory(HistorySlice)
  /\ maxMessages = DefaultMaxMessages
  /\ NoGit

\* the room from there on, for JoinDepth more appends
Followed == Len(messages) < HistorySlice + JoinDepth

LongJoin(c) ==
  /\ Followed
  /\ AddClient(c)

LongLeave(c) ==
  /\ Followed
  /\ RemoveClient(c)

LongReset ==
  /\ Followed
  /\ ResetStatus

LongNext ==
  \/ SetAgent
  \/ LongReset
  \/ \E c \in Clients : LongJoin(c)
  \/ \E c \in Clients : LongLeave(c)
  \/ \E c \in Clients : TransportCloses(c)

LongSpec == LongInit /\ [][LongNext]_vars

\* the GitManager of a room manager, on a host whose temporary directory may
\* hold worktree directories of an earlier run
GitInit ==
  /\ InitRoom
  /\ messages = <<>>
  /\ maxMessages = MaxMessages
  /\ GitConstructed
  /\ disk \in [WorktreeNames -> {"absent", "dir"}]
  /\ tmpdir \in TmpDirs
  /\ hasRequire \in BOOLEAN

CreateWorktree(d, w) ==
  /\ UNCHANGED <<roomVars, mgrVars>>
  /\ \E gitOk \in BOOLEAN : GitCommit(createWorktree(GitCur, d, w, gitOk))

RemoveWorktree(w, force) ==
  /\ UNCHANGED <<roomVars, mgrVars>>
  /\ \E gitOk \in BOOLEAN : GitCommit(removeWorktree(GitCur, w, force, gitOk))

\* another process of the host replaces a worktree directory by a symbolic
\* link, or removes it
Tamper(n, kind) ==
  /\ disk[n] = "dir" /\ kind # "dir"
  /\ disk' = [disk EXCEPT ![n] = kind]
  /\ gitLast' = [op |-> "tamper", ws |-> "", ret |-> "", path |-> <<>>,
                 manual |-> FALSE, removed |-> {}]
  /\ UNCHANGED <<roomVars, mgrVars, worktrees, tmpdir, hasRequire, cleanup>>

GitNext ==
  \/ \E d \in RepoDirectories, w \in Workspaces : CreateWorktree(d, w)
  \/ \E w \in Workspaces, force \in BOOLEAN : RemoveWorktree(w, force)
  \/ \E n \in WorktreeNames, kind \in Kinds : Tamper(n, kind)

GitSpec == GitInit /\ [][GitNext]_vars

\* a GitManager at shutdown: cleanupAllWorktrees runs while the calls of rooms
\* still being created or destroyed complete between its iterations
CleanupInit ==
  /\ InitRoom
  /\ messages = <<>>
  /\ maxMessages = MaxMessages
  /\ GitConstructed
  /\ disk = [n \in WorktreeNames |-> "absent"]
  /\ tmpdir = <<"tmp">>
  /\ hasRequire \in BOOLEAN

CleanupAllWorktrees ==
  /\ cleanup.state # "running"
  /\ UNCHANGED <<roomVars, mgrVars>>
  /\ GitCommit(cleanupAllWorktrees(GitCur))

CleanupVisit(w) ==
  /\ cleanup.state = "running" /\ w \in cleanup.todo
  /\ UNCHANGED <<roomVars, mgrVars>>
  /\ \E gitOk \in BOOLEAN : GitCommit(cleanupVisit(GitCur, w, gitOk))

\* the rooms of the session share one repository; the directory of a worktree
\* is removed, or replaced by a link that leaves the worktree base
CleanupRepos == {"/src/app"}
CleanupKinds == {"absent", "outside"}

CleanupNext ==
  \/ \E d \in CleanupRepos, w \in Workspaces : CreateWorktree(d, w)
  \/ \E w \in Workspaces : RemoveWorktree(w, TRUE)
  \/ \E n \in WorktreeNames, kind \in CleanupKinds : Tamper(n, kind)
  \/ CleanupAllWorktrees
  \/ \E w \in Workspaces : CleanupVisit(w)

CleanupSpec == CleanupInit /\ [][CleanupNext]_vars

\* ------------------------------------------------------- RoomManager
\* a turn of the manager works on the manager, the room and the GitManager
MgrCur == [m |-> mgr, st |-> Cur, g |-> GitCur]

MgrCommit(t) ==
  /\ mgr' = t.m
  /\ UNCHANGED <<gw, naming, sess, stdio, srv>>
  /\ RoomCommit(t.st)
  /\ GitCommit(t.g)

\* a directory named by the caller, as a path
Dir(d) == <<d>>

\* agentOptions.directory of the caller, or none
NoOverride == ""
AgentDirectories == {NoOverride, "/srv/other"}

\* the worktree part of createRoom without its try/catch
worktreePartUncaught(t, w, d, gitOk) ==
  LET g1 == createWorktree(t.g, d, w, gitOk)
      ok == g1.last.ret = "returned"
  IN [t EXCEPT !.g = g1,
               !.m.attempted = TRUE, !.m.created = ok,
               !.m.directory = IF ok THEN g1.last.path ELSE @,
               !.m.worktree = ok,
               !.m.originalDirectory = IF ok THEN d ELSE @,
               !.m.last = [op |-> "createRoom", ret |-> IF ok THEN "" ELSE "thrown"]]

\* try { worktreeInfo = await this.gitManager.createWorktree(directory, branchName, room.id); ... }
\* catch (error) { workingDirectory = directory }
worktreePart(t, w, d, gitOk) ==
  LET g1 == createWorktree(t.g, d, w, gitOk)
      ok == g1.last.ret = "returned"
  IN [t EXCEPT !.g = g1,
               !.m.attempted = TRUE, !.m.created = ok,
               !.m.directory = IF ok THEN g1.last.path ELSE @,
               !.m.worktree = ok,
               !.m.originalDirectory = IF ok THEN d ELSE @]

\* try { await this.gitManager.createBranch(directory, branch) } catch (error) { log }
branchPart(t, branchOk) ==
  [t EXCEPT !.m.branched = IF branchOk THEN "checked out" ELSE "failed"]

\* try { agent = await createAgent(agentType, { directory: workingDirectory, ...agentOptions });
\* room.setAgent(agent) } catch (error) { room.status = 'error' }
agentPart(t, agentDir, agentOk) ==
  IF agentOk
    THEN [t EXCEPT !.st = attachAgent(@),
                   !.m.agentDirectory = IF agentDir = NoOverride THEN t.m.directory
                                        ELSE Dir(agentDir)]
    ELSE [t EXCEPT !.st.status = "error"]

\* roomManager.createRoom({ directory, branch, useWorktree, agentOptions }); w is
\* the id of the new room
createRoom(t, w, d, branch, useWorktree, agentDir, gitOk, branchOk, agentOk) ==
  LET t0 == [t EXCEPT !.m.id = w, !.m.requested = d, !.m.directory = Dir(d),
                      !.m.last = [op |-> "createRoom", ret |-> ""]]
      t1 == IF isGitRepo(d) /\ useWorktree THEN worktreePart(t0, w, d, gitOk)
            ELSE IF isGitRepo(d) /\ branch THEN branchPart(t0, branchOk)
            ELSE t0
      t2 == agentPart(t1, agentDir, agentOk)
  IN IF t1.m.last.ret = "thrown" THEN [t1 EXCEPT !.st = Returned(@, "createRoom", "")]
     ELSE [t2 EXCEPT !.m.rooms = @ \cup {w},
                     !.m.last = [op |-> "createRoom", ret |-> "returned"],
                     !.st = Returned(@, "createRoom", "")]

CreateRoom(w, d) ==
  /\ mgr.id = "" /\ ~hasAgent /\ status = "initializing"
  /\ \E branch, useWorktree, gitOk, branchOk, agentOk \in BOOLEAN :
       \E agentDir \in AgentDirectories :
         MgrCommit(createRoom(MgrCur, w, d, branch, useWorktree, agentDir,
                              gitOk, branchOk, agentOk))

\* the worktree part of destroyRoom without its try/catch
removalPartUncaught(t, gitOk) ==
  LET g1 == removeWorktree(t.g, t.m.id, TRUE, gitOk)
      ok == g1.last.ret \in {"true", "false"}
  IN [t EXCEPT !.g = g1, !.m.removal = g1.last.ret,
               !.m.phase = IF ok THEN "removed" ELSE "idle",
               !.m.last = [op |-> "destroyRoom", ret |-> IF ok THEN "" ELSE "thrown"]]

\* try { await this.gitManager.removeWorktree(roomId, true) } catch (error) { log }
removalPart(t, gitOk) ==
  LET g1 == removeWorktree(t.g, t.m.id, TRUE, gitOk)
  IN [t EXCEPT !.g = g1, !.m.removal = g1.last.ret, !.m.phase = "removed",
               !.m.last = [op |-> "destroyRoom", ret |-> ""]]

\* await room.destroy(); this.rooms.delete(roomId); return true
destroyPart(t) ==
  LET s1 == IF t.st.hasAgent THEN destroy(stop(t.st)) ELSE destroy(t.st)
  IN [t EXCEPT !.st = s1, !.m.rooms = @ \ {t.m.id}, !.m.phase = "idle",
               !.m.last = [op |-> "destroyRoom", ret |-> "true"]]

\* roomManager.destroyRoom(roomId, { cleanupWorktree }), up to its first await
destroyRoom(t, w, cleanupWorktree, gitOk) ==
  LET t0 == [t EXCEPT !.m.target = w, !.m.cleanupWorktree = cleanupWorktree,
                      !.m.removal = "none"]
  IN IF w \notin t.m.rooms
       THEN [t0 EXCEPT !.m.last = [op |-> "destroyRoom", ret |-> "false"]]
     ELSE IF cleanupWorktree /\ t.m.worktree
       THEN removalPart(t0, gitOk)
       ELSE destroyPart(t0)

DestroyRoom(w, cleanupWorktree) ==
  /\ mgr.phase = "idle"
  /\ \E gitOk \in BOOLEAN :
       MgrCommit(destroyRoom(MgrCur, w, cleanupWorktree, gitOk))

\* destroyRoom after the await of the removal
DestroyRoomResumes ==
  /\ mgr.phase = "removed"
  /\ MgrCommit(destroyPart(MgrCur))

\* the id of the room that is created
RoomIds == {"w1"}

\* an earlier run may have left directories at the worktree paths of that id
ManagerInit ==
  /\ InitRoom
  /\ messages = <<>>
  /\ maxMessages = MaxMessages
  /\ GitConstructed
  /\ \E left \in SUBSET {worktreeName(d, w) : d \in GitRepos, w \in RoomIds} :
       disk = [n \in WorktreeNames |-> IF n \in left THEN "dir" ELSE "absent"]
  /\ tmpdir = <<"tmp">>
  /\ hasRequire \in BOOLEAN

\* the directory of the room's worktree is removed or replaced by a link
TamperRoom(kind) ==
  /\ mgr.worktree
  /\ Tamper(worktreeName(mgr.requested, mgr.id), kind)

ManagerNext ==
  \/ \E w \in RoomIds, d \in RepoDirectories : CreateRoom(w, d)
  \/ \E w \in Workspaces, cleanupWorktree \in BOOLEAN : DestroyRoom(w, cleanupWorktree)
  \/ DestroyRoomResumes
  \/ \E c \in Clients : AddClient(c)
  \/ \E kind \in CleanupKinds : TamperRoom(kind)

ManagerSpec == ManagerInit /\ [][ManagerNext]_vars

\* ----------------------------------------------------------- BobServer
MaxTokens == 2
TruncateAt == 500

\* the tokens each of the sensitivePatterns matches, in the order of the list
Sensitive ==
  {"/home/alice/app", "/Users/alice/app", "C:\\Users\\alice",
   " at run (/srv/bob/room.js:10:5)", "node_modules/ws/lib", "$HOME"}
Tokens == Sensitive \cup {"failed"}
TokenSeqs == UNION {[1..n -> Tokens] : n \in 1..MaxTokens}

\* the texts of the errors that reach the catch of the message handler
ErrorTexts == {[tokens |-> ts, pad |-> p, ellipsis |-> FALSE] :
                 ts \in TokenSeqs, p \in {0, TruncateAt}}

length(text) == Len(text.tokens) + text.pad + (IF text.ellipsis THEN 3 ELSE 0)

\* sanitized.replace(pattern, '[redacted]') for each pattern
redact(text) ==
  [text EXCEPT !.tokens = [i \in DOMAIN @ |->
                             IF @[i] \in Sensitive THEN "[redacted]" ELSE @[i]]]

\* if (sanitized.length > 500) sanitized = sanitized.slice(0, 500) + '...'
truncate(text) ==
  LET kept == IF Len(text.tokens) > TruncateAt THEN TruncateAt ELSE Len(text.tokens)
  IN IF length(text) > TruncateAt
       THEN [tokens |-> SubSeq(text.tokens, 1, kept), pad |-> TruncateAt - kept,
             ellipsis |-> TRUE]
       ELSE text

\* server.sanitizeError(error)
sanitizeError(text) == truncate(redact(text))

ErrorEvent(text) == [type |-> "error", error |-> text]

\* the 'message' handler of a connection: JSON.parse and handleMessage in a
\* try whose catch sends { type: 'error', error: error.message }.  raises is
\* whether the parse or the handling throws, and text is the thrown message
onMessage(type, raises, text) ==
  IF raises THEN ErrorEvent(text)
  ELSE CASE type = "join_room" -> ErrorEvent(Plain(<<"Room not found">>))
         [] type = "send_message" -> ErrorEvent(Plain(<<"Room not found">>))
         [] type = "ping" -> [type |-> "pong", error |-> Plain(<<>>)]
         [] OTHER -> ErrorEvent(Plain(<<"Unknown message type: ", type>>))

MessageTypes == {"join_room", "send_message", "ping", "dance"}

OnMessage(type) ==
  /\ \E raises \in BOOLEAN, text \in ErrorTexts : gw' = onMessage(type, raises, text)
  /\ UNCHANGED <<roomVars, gitVars, mgr, naming, sess, stdio, srv>>

\* data.toString() is not JSON: JSON.parse throws
OnInvalidJson ==
  /\ \E text \in ErrorTexts : gw' = onMessage("", TRUE, text)
  /\ UNCHANGED <<roomVars, gitVars, mgr, naming, sess, stdio, srv>>

GatewayNext ==
  \/ \E type \in MessageTypes : OnMessage(type)
  \/ OnInvalidJson

GatewaySpec == Init /\ [][GatewayNext]_vars

\* ------------------------------------------------------------- naming
\* Room.inferNameFromMessage(message): the subject of the first intent pattern
\* that matches, without trailing punctuation; null when nothing of three
\* characters or more is left
Prompts == {"fix the login bug", "fix the login issue", "add new feature",
            "add dark mode toggle!", "hi", ""}

inferNameFromMessage(message) ==
  CASE message = "fix the login bug" -> "login"
    [] message = "fix the login issue" -> "login"
    [] message = "add new feature" -> "new feature"
    [] message = "add dark mode toggle!" -> "dark mode toggle"
    [] OTHER -> NoName

RenamedEvent(newName) == [type |-> "room_renamed", role |-> "", content |-> newName]

\* the change of name: emit('renamed', { oldName, newName }) and the broadcast
\* of room_renamed
setName(t, newName) ==
  [t EXCEPT !.n.renamed = [oldName |-> t.n.name, newName |-> newName],
            !.n.name = newName,
            !.st = broadcast(@, RenamedEvent(newName))]

\* room.rename(newName): the user assigns a name
rename(t, newName) ==
  [setName(t, newName) EXCEPT !.n.custom = TRUE,
                              !.n.last = [op |-> "rename", arg |-> newName, ret |-> ""]]

\* a variant of autoNameFromMessage that renames custom-named rooms too
autoNameAlways(t, message) ==
  LET inferred == inferNameFromMessage(message)
      returns(u, ret) ==
        [u EXCEPT !.n.last = [op |-> "autoNameFromMessage", arg |-> message, ret |-> ret]]
  IN IF inferred = NoName \/ inferred = t.n.name THEN returns(t, "false")
     ELSE returns(setName(t, inferred), "true")

\* room.autoNameFromMessage(message)
autoNameFromMessage(t, message) ==
  LET inferred == inferNameFromMessage(message)
      returns(u, ret) ==
        [u EXCEPT !.n.last = [op |-> "autoNameFromMessage", arg |-> message, ret |-> ret]]
  IN IF t.n.custom THEN returns(t, "false")
     ELSE IF inferred = NoName \/ inferred = t.n.name THEN returns(t, "false")
     ELSE returns(setName(t, inferred), "true")

NamingCur == [n |-> naming, st |-> Cur]

NamingCommit(t) ==
  /\ naming' = t.n
  /\ RoomCommit(Returned(t.st, t.n.last.op, ""))
  /\ UNCHANGED <<gitVars, mgr, gw, sess, stdio, srv>>

Rename(newName) ==
  /\ newName \in CustomNames
  /\ NamingCommit(rename(NamingCur, newName))

AutoNameFromMessage(message) ==
  /\ message \in Prompts
  /\ NamingCommit(autoNameFromMessage(NamingCur, message))

\* rooms constructed with and without options.name
NamingInit ==
  /\ ConstructedRoom
  /\ \E name \in CustomNames \cup {NoName} : naming = constructed(name)
  /\ stdio = NoStream
  /\ messages = <<>>
  /\ maxMessages = MaxMessages
  /\ NoGit

NamingNext ==
  \/ \E newName \in CustomNames : Rename(newName)
  \/ \E message \in Prompts : AutoNameFromMessage(message)
  \/ \E c \in Clients : AddClient(c)

NamingSpec == NamingInit /\ [][NamingNext]_vars

\* ------------------------------------------------------ agent session
\* The session on its own, with the timer that stop() arms.  A subprocess
\* record holds whether SIGTERM reached it (process.killed), whether SIGKILL
\* did, whether it ignores SIGTERM, and whether a stop() was stopping it.
MaxSessionProcs == 3
SessionProcs == 1..MaxSessionProcs

sessionReturn(s, op, target, signalled) ==
  [s EXCEPT !.last = [op |-> op, target |-> target, signalled |-> signalled]]

\* this.process = spawn('claude', args, ...)
sessionSpawn(s, ignores) ==
  [s EXCEPT !.procs = Append(@, [state |-> "running", killed |-> FALSE, forced |-> FALSE,
                                 ignores |-> ignores, stopped |-> FALSE]),
            !.process = Len(s.procs) + 1]

\* process.kill(signal): a subprocess that has exited is not signalled
sessionKill(s, p, signal) ==
  IF s.procs[p].state # "running" THEN s
  ELSE IF signal = "SIGKILL" THEN [s EXCEPT !.procs[p].killed = TRUE, !.procs[p].forced = TRUE]
  ELSE [s EXCEPT !.procs[p].killed = TRUE]

\* setTimeout(() => { if (this.process && !this.process.killed)
\* this.process.kill('SIGKILL') }, 2000): the callback of the oldest timer;
\* target is the subprocess its stop() was stopping
forceKill(s) ==
  LET target == s.timers[1]
      s1 == [s EXCEPT !.timers = Tail(@)]
  IN IF s.process # NoProc /\ ~s.procs[s.process].killed
          /\ s.procs[s.process].state = "running"
       THEN sessionReturn(sessionKill(s1, s.process, "SIGKILL"), "forceKill", target, s.process)
       ELSE sessionReturn(s1, "forceKill", target, NoProc)

\* agent.stop() with its timer
sessionStop(s) ==
  LET p == s.process
      s1 == IF p # NoProc
              THEN [sessionKill(s, p, "SIGTERM") EXCEPT !.procs[p].stopped = TRUE,
                                                        !.timers = Append(@, p),
                                                        !.process = NoProc]
              ELSE s
  IN sessionReturn([s1 EXCEPT !.status = "stopped"], "stop", p, NoProc)

\* agent.continueSession() / resumeSession(): await this.stop(), then spawn
continueSession(s, ignores) ==
  sessionReturn(sessionSpawn(sessionStop(s), ignores), "continueSession", s.process, NoProc)

\* process.on('close')
sessionClose(s, p) ==
  sessionReturn([s EXCEPT !.procs[p].state = "exited", !.status = "stopped"],
                "close", p, NoProc)

SessionCommit(s) ==
  /\ sess' = s
  /\ UNCHANGED <<roomVars, gitVars, mgr, gw, naming, stdio, srv>>

\* agent.start() in interactive mode
StartInteractive ==
  /\ sess.process = NoProc /\ Len(sess.procs) < MaxSessionProcs
  /\ \E ignores \in BOOLEAN :
       SessionCommit(sessionReturn([sessionSpawn(sess, ignores) EXCEPT !.status = "ready"],
                                   "start", NoProc, NoProc))

SessionStop ==
  /\ sess.process \in SessionProcs \cup {NoProc}
  /\ SessionCommit(sessionStop(sess))

ContinueSession ==
  /\ Len(sess.procs) < MaxSessionProcs
  /\ \E ignores \in BOOLEAN : SessionCommit(continueSession(sess, ignores))

\* the grace period of the oldest armed timer ends
GraceEnds ==
  /\ sess.timers # <<>>
  /\ SessionCommit(forceKill(sess))

\* the subprocess p exits: by itself or on SIGTERM unless it ignores the
\* signal, and in any case on SIGKILL
SessionExit(p) ==
  /\ p \in DOMAIN sess.procs /\ sess.procs[p].state = "running"
  /\ sess.procs[p].forced \/ ~sess.procs[p].ignores
  /\ SessionCommit(sessionClose(sess, p))

SessionNext ==
  \/ StartInteractive
  \/ SessionStop
  \/ ContinueSession
  \/ GraceEnds
  \/ \E p \in SessionProcs : SessionExit(p)

SessionSpec == Init /\ [][SessionNext]_vars

\* timers fire
SessionFairSpec == SessionSpec /\ WF_vars(GraceEnds)

\* ------------------------------------------------------ output stream
\* The stdout of a subprocess as a sequence of characters, delivered to the
\* 'data' handler in chunks of any length.  A line is valid JSON exactly when,
\* spaces aside, it is the object {}.
MaxStream == 4
NL == "\n"
Chars == {"{", "}", "x", " ", NL}
Streams == UNION {[1..n -> Chars] : n \in 0..MaxStream}

\* text.split('\n'): the segments between the newlines, the last one included
RECURSIVE split(_)
split(text) ==
  IF \A i \in 1..Len(text) : text[i] # NL THEN <<text>>
  ELSE LET i == CHOOSE k \in 1..Len(text) :
                  text[k] = NL /\ \A j \in 1..(k - 1) : text[j] # NL
       IN <<SubSeq(text, 1, i - 1)>> \o split(SubSeq(text, i + 1, Len(text)))

\* line.trim()
blank(line) == \A i \in 1..Len(line) : line[i] = " "

\* JSON.parse(line) returns
valid(line) == SelectSeq(line, LAMBDA c : c # " ") = <<"{", "}">>

\* the body of the loop over the lines: handleEvent(event) of a parsed line,
\* emit('stream', line + '\n') of any other, nothing of a blank one
RECURSIVE handleLines(_)
handleLines(lines) ==
  IF lines = <<>> THEN <<>>
  ELSE LET line == Head(lines)
       IN (IF blank(line) THEN <<>>
           ELSE IF valid(line) THEN << <<"event", SelectSeq(line, LAMBDA c : c # " ")>> >>
           ELSE << <<"stream", line \o <<NL>> >> >>)
          \o handleLines(Tail(lines))

Front(lines) == SubSeq(lines, 1, Len(lines) - 1)

\* handleStreamData(data): the interactive strategy
handleStreamData(s, data) ==
  LET lines == split(s.buffer \o data)
  IN [s EXCEPT !.buffer = lines[Len(lines)],
               !.events = @ \o handleLines(Front(lines))]

\* proc.stdout.on('data') of sendOneShot
oneShotData(s, data) ==
  [s EXCEPT !.events = @ \o handleLines(split(data))]

StreamCommit(s) ==
  /\ stdio' = s
  /\ UNCHANGED <<roomVars, gitVars, mgr, gw, naming, sess, srv>>

\* the 'data' event of the interactive subprocess with the next n characters
InteractiveData(n) ==
  /\ stdio.strategy = "interactive" /\ n \in 1..Len(stdio.rest)
  /\ StreamCommit(handleStreamData([stdio EXCEPT !.rest = SubSeq(@, n + 1, Len(@))],
                                    SubSeq(stdio.rest, 1, n)))

\* the 'data' event of the one-shot subprocess with the next n characters
OneShotData(n) ==
  /\ stdio.strategy = "oneshot" /\ n \in 1..Len(stdio.rest)
  /\ StreamCommit(oneShotData([stdio EXCEPT !.rest = SubSeq(@, n + 1, Len(@))],
                              SubSeq(stdio.rest, 1, n)))

StreamInit ==
  /\ ConstructedRoom
  /\ naming = constructed(NoName)
  /\ \E strategy \in {"interactive", "oneshot"}, input \in Streams :
       stdio = [NoStream EXCEPT !.strategy = strategy, !.input = input, !.rest = input]
  /\ messages = <<>>
  /\ maxMessages = MaxMessages
  /\ NoGit

StreamNext ==
  \/ \E n \in 1..MaxStream : InteractiveData(n)
  \/ \E n \in 1..MaxStream : OneShotData(n)

StreamSpec == StreamInit /\ [][StreamNext]_vars

\* ------------------------------------------------------ gateway and registry
\* The gateway, its RoomManager and the rooms, one step per turn of the event
\* loop.  A room object exists from new Room() on, registered or not.  A call
\* that awaits git or the agent's start resumes in a later turn; a call that
\* awaits only settled promises goes on within its turn.
MaxDestroys == 2        \* destroyRoom calls awaiting removeWorktree at the same time

serverReturn(s, op, r) == [s EXCEPT !.last = [op |-> op, room |-> r]]

Untracked(seq, r) == SelectSeq(seq, LAMBDA x : x # r)

\* gitManager.removeWorktree(roomId, true) as destroyRoom and the sweep see it:
\* the record and the directory go when git removes the worktree, and stay
\* when the call throws
serverRemoveWorktree(s, r, gitOk) ==
  IF gitOk /\ \E i \in DOMAIN s.tracked : s.tracked[i] = r
    THEN [s EXCEPT !.tracked = Untracked(@, r), !.dirs = @ \ {r}]
    ELSE s

\* room.addClient(ws, info); info.rooms.add(room.id)
serverAddClient(s, r, c) ==
  [s EXCEPT !.room[r].clients = @ \cup {c},
            !.room[r].history = @ + 1,
            !.conns[c].rooms = @ \cup {r}]

\* room.removeClient(clientId)
serverRemoveClient(s, r, c) ==
  IF c \in s.room[r].clients
    THEN [s EXCEPT !.room[r].clients = @ \ {c}, !.room[r].history = @ + 1]
    ELSE s

\* room.on('destroyed'): this.rooms.delete(room.id); emit('roomDestroyed')
onDestroyed(s, r) ==
  [s EXCEPT !.rooms = @ \ {r}, !.room[r].destroyed = @ + 1]

\* room.destroy(): agent.stop(), broadcast of room_closed, ws.close() of every
\* observer, clients.clear(), emit('destroyed')
roomDestroy(s, r) ==
  LET s1 == IF s.room[r].agent # "none"
              THEN [s EXCEPT !.room[r].agent = "stopped", !.room[r].stops = @ + 1,
                             !.room[r].status = "stopped"]
              ELSE s
      s2 == [s1 EXCEPT
               !.room[r].notified = [c \in Conns |->
                                       IF c \in s1.room[r].clients THEN @[c] + 1 ELSE @[c]],
               !.conns = [c \in Conns |->
                            IF c \in s1.room[r].clients
                              THEN [@[c] EXCEPT !.closedBy = @ \cup {r}]
                              ELSE @[c]],
               !.room[r].clients = {}]
  IN onDestroyed(s2, r)

\* destroyRoom after its removal of the worktree: await room.destroy();
\* this.rooms.delete(roomId)
destroyTail(s, r) ==
  LET s1 == roomDestroy(s, r)
  IN [s1 EXCEPT !.rooms = @ \ {r}]

\* roomManager.destroyRoom(roomId) up to its first await on git: a room
\* without a worktree is destroyed within the turn
destroyHead(s, r, byAll) ==
  IF r \notin s.rooms THEN s
  ELSE IF s.room[r].worktree
    THEN [s EXCEPT !.destroys = Append(@, [room |-> r, byAll |-> byAll])]
    ELSE destroyTail(s, r)

\* destroyAll after await Promise.all(promises): this.rooms.clear(), and the
\* sweep of cleanupAllWorktrees begins
allTail(s) == [s EXCEPT !.rooms = {}, !.all.phase = "sweeping"]

AllPending(s) == \E i \in DOMAIN s.destroys : s.destroys[i].byAll

\* for (const [roomId, room] of this.rooms) promises.push(this.destroyRoom(...))
RECURSIVE destroyAllHead(_, _)
destroyAllHead(s, regs) ==
  IF regs = {} THEN s
  ELSE LET r == CHOOSE x \in regs : \A y \in regs : x = y \/ x = "r1"
       IN destroyAllHead(destroyHead(s, r, TRUE), regs \ {r})

\* roomManager.destroyAll()
destroyAll(s) ==
  LET s1 == destroyAllHead([s EXCEPT !.all.phase = "awaiting"], s.rooms)
  IN IF AllPending(s1) THEN s1 ELSE allTail(s1)

\* the continuation of the i-th destroyRoom call that awaits removeWorktree
destroyRoomResumes(s, i, gitOk) ==
  LET call == s.destroys[i]
      s1 == [s EXCEPT !.destroys = SubSeq(@, 1, i - 1) \o SubSeq(@, i + 1, Len(@))]
      s2 == destroyTail(serverRemoveWorktree(s1, call.room, gitOk), call.room)
  IN IF call.byAll /\ ~AllPending(s2) THEN allTail(s2) ELSE s2

\* the record cleanupAllWorktrees visits next
SweepNext(s) ==
  LET left == SelectSeq(s.tracked, LAMBDA x : x \notin s.all.visited)
  IN IF left = <<>> THEN "" ELSE left[1]

\* one iteration of cleanupAllWorktrees, or its return
sweepVisit(s, gitOk) ==
  LET r == SweepNext(s)
  IN IF r = "" THEN [s EXCEPT !.all.phase = "done"]
     ELSE serverRemoveWorktree([s EXCEPT !.all.visited = @ \cup {r}], r, gitOk)

\* new Room() of createRoom
newRoom(s, r, c) == [s EXCEPT !.room[r].phase = "creating", !.room[r].owner = c]

\* createRoom after createWorktree settled
createRoomWorktree(s, r, gitOk) ==
  IF gitOk
    THEN [s EXCEPT !.tracked = Append(@, r), !.dirs = @ \cup {r},
                   !.room[r].worktree = TRUE, !.room[r].phase = "agent"]
    ELSE [s EXCEPT !.room[r].phase = "agent"]

\* createRoom after createAgent settled: setAgent or status error,
\* this.rooms.set, and the create_room handler's room.addClient(ws, info)
createRoomAgent(s, r, agentOk) ==
  LET s1 == IF agentOk
              THEN [s EXCEPT !.room[r].agent = "running", !.room[r].status = "ready"]
              ELSE [s EXCEPT !.room[r].status = "error"]
      s2 == [s1 EXCEPT !.rooms = @ \cup {r}, !.room[r].phase = "created"]
  IN serverAddClient(s2, r, s2.room[r].owner)

\* handleDisconnect(clientId)
RECURSIVE leaveAll(_, _, _)
leaveAll(s, c, rs) ==
  IF rs = {} THEN s
  ELSE LET r == CHOOSE x \in rs : TRUE
       IN leaveAll(IF r \in s.rooms THEN serverRemoveClient(s, r, c) ELSE s, c, rs \ {r})

handleDisconnect(s, c) ==
  [leaveAll(s, c, s.conns[c].rooms) EXCEPT !.conns[c].state = "gone"]

ServerCommit(s) ==
  /\ srv' = s
  /\ UNCHANGED <<roomVars, gitVars, mgr, gw, naming, sess, stdio>>

\* wss.on('connection')
Connect(c) ==
  /\ srv.conns[c].state = "new"
  /\ ServerCommit(serverReturn([srv EXCEPT !.conns[c].state = "connected"], "connect", ""))

\* ws.on('close')
Disconnect(c) ==
  /\ srv.conns[c].state = "connected"
  /\ ServerCommit(serverReturn(handleDisconnect(srv, c), "disconnect", ""))

\* the create_room message of connection c: createRoom up to its first await
CreateRoomStart(c, r) ==
  /\ srv.conns[c].state = "connected"
  /\ srv.room[r].phase = "none"
  /\ \A x \in ServerRoomIds : srv.room[x].phase = "none" => (x = r \/ r = "r1")
  /\ ServerCommit(serverReturn(newRoom(srv, r, c), "createRoom", r))

CreateRoomWorktree(r) ==
  /\ srv.room[r].phase = "creating"
  /\ \E gitOk \in BOOLEAN :
       ServerCommit(serverReturn(createRoomWorktree(srv, r, gitOk), "createWorktree", r))

CreateRoomAgent(r) ==
  /\ srv.room[r].phase = "agent"
  /\ \E agentOk \in BOOLEAN :
       ServerCommit(serverReturn(createRoomAgent(srv, r, agentOk), "roomCreated", r))

\* the close_room message of connection c for a registered room
CloseRoom(c, r) ==
  /\ srv.conns[c].state = "connected"
  /\ r \in srv.rooms
  /\ Len(srv.destroys) < MaxDestroys
  /\ ServerCommit(serverReturn(destroyHead(srv, r, FALSE), "destroyRoom", r))

ServerDestroyResumes(i) ==
  /\ i \in DOMAIN srv.destroys
  /\ \E gitOk \in BOOLEAN :
       ServerCommit(serverReturn(destroyRoomResumes(srv, i, gitOk), "destroyed",
                                 srv.destroys[i].room))

\* server shutdown
DestroyAll ==
  /\ srv.all.phase = "idle"
  /\ Len(srv.destroys) + Cardinality(srv.rooms) <= MaxDestroys
  /\ ServerCommit(serverReturn(destroyAll(srv), "destroyAll", ""))

SweepVisit ==
  /\ srv.all.phase = "sweeping"
  /\ \E gitOk \in BOOLEAN :
       ServerCommit(serverReturn(sweepVisit(srv, gitOk), "sweep", SweepNext(srv)))

ServerNext ==
  \/ \E c \in Conns : Connect(c)
  \/ \E c \in Conns : Disconnect(c)
  \/ \E c \in Conns, r \in ServerRoomIds : CreateRoomStart(c, r)
  \/ \E r \in ServerRoomIds : CreateRoomWorktree(r)
  \/ \E r \in ServerRoomIds : CreateRoomAgent(r)
  \/ \E c \in Conns, r \in ServerRoomIds : CloseRoom(c, r)
  \/ \E i \in 1..MaxDestroys : ServerDestroyResumes(i)
  \/ DestroyAll
  \/ SweepVisit

\* a gateway that has just been constructed; the strategy of the agents is
\* left out, the turns above do not read it
ServerInit == Init /\ isInteractive

ServerSpec == ServerInit /\ [][ServerNext]_vars

TypeOK ==
  /\ status \in {"initializing", "ready", "busy", "error", "stopped"}
  /\ Len(messages) <= maxMessages
  /\ Len(reqs) <= MaxRequests /\ Len(procs) <= MaxProcs
  /\ currentRequest \in DOMAIN reqs \cup {NoReq}
  /\ currentRequest # NoReq => reqs[currentRequest].state = "inflight"
  /\ watch # NoReq => watch \in DOMAIN reqs /\ reqs[watch].state = "inflight"
  /\ process \in DOMAIN procs \cup {NoProc}
  /\ \A r \in DOMAIN reqs : reqs[r].timeoutId => reqs[r].state = "inflight"
  /\ Len(clients) <= MaxClients
  /\ \A i, j \in DOMAIN clients : clients[i].id = clients[j].id => i = j

\* ------------------------------------------------------------ properties
InFlight == {r \in DOMAIN reqs : reqs[r].state = "inflight"}
Outcomes == {"reply", "Request timed out", "Request cancelled", "Process exited",
             "Unknown error", "Spawn failed"}
\* the last turn settled a call
Settled == last.ret \in Outcomes
\* the room's own state is the same before and after the step, and the step
\* broadcast nothing
RoomUntouched ==
  /\ UNCHANGED <<status, messages, currentRequest, reqs, procs, process, currentSettle>>
  /\ out' = <<>>

\* C1: between turns, status is busy if and only if currentRequest is non-null
C1_BusyIffPending == (status = "busy") <=> (currentRequest # NoReq)

\* C2: at most one sendToAgent call is in flight (started and not settled)
C2_OneInFlight == Cardinality(InFlight) <= 1

\* C3: sendToAgent on a room whose status is busy fails with Busy and changes
\* nothing: no message, no broadcast, status, currentRequest and timers untouched
C3_BusyRejects ==
  [][(status = "busy" /\ last'.op = "sendToAgent")
       => (last'.ret = "Busy" /\ RoomUntouched)]_vars

C3_Witness ==
  /\ last.op = "sendToAgent" /\ last.ret = "Busy"
  /\ status = "busy" /\ currentRequest # NoReq
  /\ reqs[currentRequest].timeoutId

\* a subprocess whose exit is the completion of an agent send that the race has
\* already settled
LateCompletion(p) ==
  /\ p \in DOMAIN procs /\ procs[p].state = "running"
  /\ IF procs[p].mode = "oneshot" THEN procs[p].req = Stale ELSE currentSettle = Stale

\* C4: a call settles once; a watcher that fires after the call has settled
\* settles nothing and leaves the room's state alone
C4_LateFiringInert ==
  [][/\ \A r \in DOMAIN reqs :
          (reqs[r].state = "settled" /\ CancelPoll(r)) => (~Settled' /\ RoomUntouched)
     /\ \A p \in DOMAIN procs :
          (LateCompletion(p) /\ ProcClose(p))
            => (~Settled' /\ status' = status /\ messages' = messages
                /\ currentRequest' = currentRequest /\ out' = <<>>)]_vars

\* C5: a call settled by its timeout leaves the room ready
C5_TimeoutReady ==
  (last.op = "timeout" /\ last.ret = "Request timed out") => status = "ready"

\* C6: no call has finished while the subprocess spawned for it is still running
\* and was never sent a termination signal
C6_NoUnsignalled ==
  \A p \in DOMAIN procs :
    (procs[p].mode = "oneshot" /\ procs[p].req = Stale /\ procs[p].state = "running")
      => procs[p].killed

\* C7: every accepted call eventually settles (the call that is followed is
\* always eventually not in flight any more); the turn that settles a call clears
\* currentRequest and ends with a broadcast of the room's status; the room does
\* not stay busy forever
C7_EventuallySettles ==
  /\ []<>(watch = NoReq)
  /\ []<>(status # "busy")
  /\ [][Settled' => /\ currentRequest' = NoReq
                    /\ out' # <<>>
                    /\ out'[Len(out')] = StatusEvent(status')]_vars

C7_Witness ==
  /\ Settled /\ watch = NoReq /\ currentRequest = NoReq
  /\ out # <<>> /\ out[Len(out)] = StatusEvent(status)
  /\ InFlight = {}

\* C8: cancel() without a current request returns false and changes nothing: no
\* message, no broadcast, no status change, no signal
C8_CancelIdle ==
  [][(currentRequest = NoReq /\ last'.op = "cancel")
       => (last'.ret = "false" /\ RoomUntouched)]_vars

C8_Witness ==
  /\ last.op = "cancel" /\ last.ret = "false"
  /\ process # NoProc /\ procs[process].state = "running" /\ ~procs[process].killed

\* C9: from a cancel() that returned true until the cancelled call has settled,
\* exactly one system message is appended
C9_OneSystemMessage ==
  /\ (last.op = "cancel" /\ currentRequest # NoReq) => last.ret = "true"
  /\ (Settled /\ last.ret = "Request cancelled") => sysCount = 1

\* C10: after cancel() returned true the room eventually is ready with no
\* current request, whatever the subprocess does
C10_CancelLeadsToReady ==
  (last.op = "cancel" /\ last.ret = "true")
    ~> (status = "ready" /\ currentRequest = NoReq)

C10_Witness ==
  /\ last.op = "cancelPoll" /\ last.ret = "Request cancelled"
  /\ status = "ready" /\ currentRequest = NoReq

\* ---------------------------------------------------------------- C11
\* C11: resetStatus() does not raise and, whatever the state of the room (busy
\* or not, with or without a pending request, with or without a live
\* subprocess), returns true with status ready and no pending request, having
\* broadcast exactly one status(ready) and appended exactly one system message.
ResetMessage == [role |-> "system", content |-> "Room status reset to ready"]

C11_ResetRecovers ==
  [][last'.op = "resetStatus" =>
       /\ last'.ret = "true"
       /\ status' = "ready"
       /\ currentRequest' = NoReq
       /\ out' = <<StatusEvent("ready"), MessageEvent(ResetMessage)>>
       /\ messages' = lastSlice(Append(messages, ResetMessage), maxMessages)]_vars

\* a reset that found the room busy with a call in flight on a live subprocess
C11_Witness ==
  /\ last.op = "resetStatus" /\ last.ret = "true"
  /\ \E r \in DOMAIN reqs : reqs[r].state = "inflight"
  /\ \E p \in DOMAIN procs : procs[p].state = "running" /\ procs[p].killed

\* ---------------------------------------------------------------- C12
\* the messages appended during a turn, in order: addMessage broadcasts each
IsMessageEvent(e) == e.type = "message"
Appended(o) ==
  LET es == SelectSeq(o, IsMessageEvent)
  IN [i \in 1..Len(es) |-> [role |-> es[i].role, content |-> es[i].content]]

\* C12: the history starts empty and, after every turn, is the history before
\* the turn followed by the messages the turn appended, cut to the newest
\* maxMessages of them: with m appends in total it holds the min(N, m) most
\* recent messages in append order, nothing is modified or reordered, and only
\* the oldest entries leave.
C12_HistoryKeepsNewest ==
  /\ messages = <<>>
  /\ [][messages' = lastSlice(messages \o Appended(out'), maxMessages)]_vars

\* a turn that appended two messages to a full history of capacity two
C12_Witness ==
  /\ maxMessages = 2 /\ last.op = "agentError"
  /\ messages = <<[role |-> "system", content |-> "Agent error: Unknown error"],
                  [role |-> "system", content |-> "Error: Unknown error"]>>

\* ---------------------------------------------------------------- C13
\* C13: removing an observer (leave_room or disconnect, through removeClient)
\* leaves the history as it was: nothing appended, evicted or modified.
C13_RemovalKeepsHistory ==
  [][last'.op = "removeClient" => messages' = messages]_vars

\* ---------------------------------------------------------------- C14
\* C14: a send that raises for one observer is isolated: in every turn, each
\* member whose transport is open and whose send works is handed every message
\* the turn appended, and the operation of the turn completes without raising.
C14_SendFailureIsolated ==
  [][/\ last'.ret # "raised"
     /\ \A i \in DOMAIN clients' :
          (clients'[i].open /\ ~clients'[i].raises)
            => SelectSeq(sent'[clients'[i].id], IsMessageEvent)
                 = SelectSeq(out', IsMessageEvent)]_vars

\* ---------------------------------------------------------------- C15
\* C15: in every turn, each observer that is connected at its end was handed
\* the turn's message events one per appended message, in the order of the
\* appends, and any two such observers were handed the same sequence; turns
\* follow one another, so each connected observer sees the append order.
C15_AppendOrder ==
  [][/\ \A i \in DOMAIN clients' :
          clients'[i].open => Appended(sent'[clients'[i].id]) = Appended(out')
     /\ \A i, j \in DOMAIN clients' :
          (clients'[i].open /\ clients'[j].open)
            => SelectSeq(sent'[clients'[i].id], IsMessageEvent)
                 = SelectSeq(sent'[clients'[j].id], IsMessageEvent)]_vars

\* two connected observers were handed the two messages of one turn
C15_Witness ==
  /\ last.op = "agentError"
  /\ Len(clients) = 2 /\ \A i \in DOMAIN clients : clients[i].open
  /\ \A c \in Clients :
       Appended(sent[c]) = <<[role |-> "system", content |-> "Agent error: Unknown error"],
                             [role |-> "system", content |-> "Error: Unknown error"]>>

\* ---------------------------------------------------------------- C16
\* h holds the last min(HistorySlice, Len(ms)) entries of ms, in their order
IsJoinSlice(h, ms) ==
  LET k == Len(ms)
      n == IF k < HistorySlice THEN k ELSE HistorySlice
  IN Len(h) = n /\ \A i \in 1..n : h[i] = ms[k - n + i]

Joined(c) == last'.op = "addClient" /\ last'.ret = ClientName(c)

\* C16: addClient hands the joiner exactly one room_joined event, the first
\* thing it is handed, with the status of the room and the last min(100, length)
\* messages of the history as they are when it joins, in append order; a
\* connection that is not in the room and does not join is handed nothing.
C16_JoinEvent ==
  [][\A c \in Clients :
       /\ Joined(c) =>
            /\ sent'[c] # <<>>
            /\ sent'[c][1].type = "room_joined"
            /\ \A i \in 2..Len(sent'[c]) : sent'[c][i].type # "room_joined"
            /\ sent'[c][1].content = status
            /\ IsJoinSlice(sent'[c][1].history, messages)
       /\ (~Member(Cur, c) /\ ~Joined(c)) => sent'[c] = <<>>]_vars

\* a join of a room whose history held one message more than the slice
C16_Witness ==
  /\ last.op = "addClient" /\ status = "ready"
  /\ Len(messages) = HistorySlice + 2
  /\ \E c \in Clients :
       /\ last.ret = ClientName(c)
       /\ Len(sent[c]) = 2
       /\ Len(sent[c][1].history) = HistorySlice
       /\ sent[c][1].history[1] = messages[2]

\* ---------------------------------------------------------------- C17
\* the connection c is in the room with an open transport before and after the turn
Stays(c) ==
  /\ Member(Cur, c) /\ clients[EntryOf(Cur, c)].open
  /\ \E i \in DOMAIN clients' : clients'[i].id = c /\ clients'[i].open

NewestMessage == messages'[Len(messages')]

\* C17: every observer connected through the turn that accepts a call is handed
\* status busy first and the user message second, and no status ready in that
\* turn; every observer connected through the turn in which the agent's answer
\* resolves the call is handed the agent message with the reply and, after it
\* and last of all, status ready.  The call is in flight between the two turns,
\* so the four events reach an observer connected throughout in that order.
C17_AnsweredCallEvents ==
  [][\A c \in Clients :
       /\ (Stays(c) /\ last'.op = "sendToAgent" /\ last'.ret = "pending") =>
            /\ Len(sent'[c]) >= 2
            /\ sent'[c][1] = StatusEvent("busy")
            /\ NewestMessage.role = "user" /\ NewestMessage.content \in Contents
            /\ sent'[c][2] = MessageEvent(NewestMessage)
            /\ \A i \in DOMAIN sent'[c] : sent'[c][i] # StatusEvent("ready")
       /\ (Stays(c) /\ last'.ret = "reply") =>
            /\ sent'[c] # <<>>
            /\ sent'[c][Len(sent'[c])] = StatusEvent("ready")
            /\ NewestMessage.role = "agent"
            /\ NewestMessage.content \in Replies \cup Outputs
            /\ \E i \in 1..(Len(sent'[c]) - 1) : sent'[c][i] = MessageEvent(NewestMessage)]_vars

\* two connected observers were handed the agent's answer and then status ready
C17_Witness ==
  /\ last.op = "agentResult" /\ last.ret = "reply"
  /\ Len(clients) = 2 /\ \A i \in DOMAIN clients : clients[i].open
  /\ \A c \in Clients :
       sent[c] = <<StatusEvent("ready"),
                   MessageEvent([role |-> "agent", content |-> "done"]),
                   StatusEvent("ready")>>

\* ---------------------------------------------------------------- C18
\* C18: stopped is terminal: once the status of the room is stopped, no
\* operation, agent event or settlement of a call changes it.
C18_StoppedIsTerminal ==
  [][status = "stopped" => status' = "stopped"]_vars

\* ---------------------------------------------------------------- C19
\* the three checks, for the record of workspace w as the host is before the call
ChecksHold(w) ==
  LET rp == realpathSync(GitCur, worktrees[w].path)
  IN /\ insideBase(rp, worktreeBase(tmpdir))
     /\ ~isDangerous(rp)
     /\ includesId(rp, w)

\* C19: a removeWorktree call that reaches the manual cleanup deletes the
\* path only when the three checks hold; when one of them fails the call ends
\* with a safety violation, deletes nothing and keeps the record.
C19_ChecksGuardDeletion ==
  [][\A w \in Workspaces :
       (gitLast'.op = "removeWorktree" /\ gitLast'.ws = w /\ gitLast'.manual) =>
         /\ gitLast'.removed # {} => ChecksHold(w)
         /\ ~ChecksHold(w) => /\ gitLast'.ret = "SafetyViolation"
                              /\ gitLast'.removed = {}
                              /\ disk' = disk
                              /\ worktrees' = worktrees]_vars

\* ---------------------------------------------------------------- C20
\* C20: after a createWorktree call that returned, the record of its
\* workspace id exists and holds the returned path; a call that failed leaves
\* the records as they were.
C20_SuccessIsRecorded ==
  [][\A w \in Workspaces :
       (gitLast'.op = "createWorktree" /\ gitLast'.ws = w) =>
         IF gitLast'.ret = "returned"
           THEN worktrees'[w] # NoRecord /\ worktrees'[w].path = gitLast'.path
           ELSE worktrees' = worktrees]_vars

\* ---------------------------------------------------------------- C21
\* the workspace ids of the returned error list
Reported(c) == {e.workspaceId : e \in c.errors}

\* C21: cleanupAllWorktrees never raises, and when it returns every record
\* that was tracked when it started is either dropped from the Map or listed
\* in the returned errors under its workspace id.
C21_CleanupReports ==
  [][/\ cleanup'.state # "thrown"
     /\ (cleanup' # cleanup /\ cleanup'.state = "returned") =>
          \A w \in cleanup'.start :
            worktrees'[w] = NoRecord \/ w \in Reported(cleanup')]_vars

\* a cleanup of two records has returned: the removal of one failed and is
\* reported, the other was attempted all the same and its record is dropped
C21_Witness ==
  /\ cleanup.state = "returned"
  /\ cleanup.start = Workspaces
  /\ \E w \in Workspaces : w \in Reported(cleanup) /\ worktrees[w] # NoRecord
  /\ \E w \in Workspaces : w \notin Reported(cleanup) /\ worktrees[w] = NoRecord

\* ---------------------------------------------------------------- C22
\* the step is a createRoom call
CreatesRoom == mgr.id = "" /\ mgr'.last.op = "createRoom"

C23_DirectoryAndMetadata ==
  [][CreatesRoom =>
       /\ mgr'.worktree <=> (mgr'.attempted /\ mgr'.created)
       /\ mgr'.worktree =>
            /\ mgr'.directory = worktreePath(tmpdir, mgr'.requested, mgr'.id)
            /\ mgr'.originalDirectory = mgr'.requested
       /\ ~mgr'.worktree =>
            /\ mgr'.directory = Dir(mgr'.requested)
            /\ mgr'.originalDirectory = ""
            /\ hasAgent' => mgr'.agentDirectory = mgr'.directory]_vars

\* ---------------------------------------------------------------- C24
\* the step ends a destroyRoom call for the registered room
DestroyRoomEnds ==
  /\ mgr'.target \in mgr.rooms
  /\ mgr'.last.op = "destroyRoom" /\ mgr'.last.ret # ""

\* the step destroys the room object: agent stopped, observers notified
RoomDestroyed ==
  /\ last'.op = "destroy"
  /\ hasAgent => agentStatus' = "stopped" /\ status' = "stopped"
  /\ \A i \in DOMAIN clients :
       clients[i].open => \E k \in DOMAIN sent'[clients[i].id] :
                            sent'[clients[i].id][k] = ClosedEvent
  /\ clients' = <<>>

\* C24: destroyRoom of a registered room that owns a worktree attempts the
\* forced removal of the worktree in an earlier step than the one that
\* destroys the room object, and whether or not the removal failed the call
\* destroys the room, returns true and leaves the room out of the registry.
C24_RemovalBeforeDestroy ==
  [][/\ DestroyRoomEnds =>
          /\ mgr'.last.ret = "true"
          /\ mgr'.target \notin mgr'.rooms
          /\ RoomDestroyed
          /\ (mgr'.cleanupWorktree /\ mgr.worktree) =>
               /\ mgr.phase = "removed" /\ mgr.removal # "none"
               /\ gitLast' = gitLast
     /\ (mgr.phase = "idle" /\ mgr'.phase = "removed") =>
          /\ gitLast'.op = "removeWorktree" /\ gitLast'.ws = mgr'.target
          /\ mgr'.target \in mgr'.rooms
          /\ status' = status /\ clients' = clients /\ agentStatus' = agentStatus]_vars

\* a destroyRoom call has returned true although the removal of the room's
\* worktree failed
C24_Witness ==
  /\ mgr.last = [op |-> "destroyRoom", ret |-> "true"]
  /\ mgr.worktree /\ mgr.cleanupWorktree
  /\ mgr.removal \notin {"none", "true", "false"}
  /\ mgr.id \notin mgr.rooms /\ status = "stopped"

\* ---------------------------------------------------------------- C25
\* a text that sanitizeError could have returned
Sanitized(text) ==
  /\ \A i \in DOMAIN text.tokens : text.tokens[i] \notin Sensitive
  /\ Len(text.tokens) + text.pad <= TruncateAt

\* C25: every error event the gateway sends to a connection carries a text
\* that went through sanitizeError: no sensitive token is left in it and it
\* is cut at 500 characters, whatever message of the connection caused it.
C25_ErrorsSanitized == gw.type = "error" => Sanitized(gw.error)

\* ---------------------------------------------------------------- C26
\* C26: auto-naming never renames a room that has a custom name:
\* autoNameFromMessage returns false and leaves the name as it is for every
\* message, and a room that has a custom name keeps having one; a room with
\* its placeholder or an auto-derived name takes the name inferred from each
\* message that yields a valid name different from its current one.
C26_CustomNameIsKept ==
  [][/\ naming.custom => naming'.custom
     /\ naming'.last.op = "autoNameFromMessage" =>
          LET inferred == inferNameFromMessage(naming'.last.arg)
          IN /\ naming.custom =>
                  naming'.name = naming.name /\ naming'.last.ret = "false"
             /\ (~naming.custom /\ inferred # NoName /\ inferred # naming.name) =>
                  naming'.name = inferred /\ naming'.last.ret = "true"]_vars

\* a room constructed with a custom name was given a message that yields a
\* valid name, and kept its own
C26_Witness ==
  /\ naming.custom /\ naming.name \in CustomNames
  /\ naming.last.op = "autoNameFromMessage"
  /\ inferNameFromMessage(naming.last.arg) # NoName
  /\ naming.last.ret = "false"
  /\ naming.renamed.newName = NoName

\* ---------------------------------------------------------------- C27
\* C27: once a sendToAgent call has settled, with whatever outcome, neither
\* of the timers it armed is armed any more: the timeout timer and the
\* periodic cancellation check are both cleared at settlement.
C27_NoTimerAfterSettlement ==
  \A r \in DOMAIN reqs :
    reqs[r].state = "settled" => ~reqs[r].timeoutId /\ ~reqs[r].checkCancelled

\* ---------------------------------------------------------------- C28
RoomStatuses == {"initializing", "ready", "busy", "error", "stopped"}

\* C28: in every reachable state the room's status is one of initializing,
\* ready, busy, error and stopped, also after the room copied a status that
\* its agent emitted; idle, the status an agent is constructed with, never
\* reaches the room.
C28_StatusValues == status \in RoomStatuses

\* the room holds a status it copied from a status event of its agent
C28_Witness ==
  /\ hasAgent /\ last.op = "destroy"
  /\ agentStatus = "stopped" /\ status = agentStatus
  /\ \E i \in DOMAIN out : out[i] = StatusEvent("stopped")

\* ---------------------------------------------------------------- C29
\* C29: when the interactive subprocess exits or reports an error while a
\* send is pending, the agent settles that send with a failure in the same
\* step, clears its settle handles, and its status is error or stopped.
C29_CrashSettlesPending ==
  [][(currentSettle # NoReq /\ last'.op \in {"exit", "crash"}) =>
       /\ currentSettle' = NoReq
       /\ agentStatus' \in {"error", "stopped"}
       /\ (currentSettle \in DOMAIN reqs /\ reqs[currentSettle].state = "inflight") =>
            last'.ret \in Outcomes \ {"reply"}]_vars

\* ---------------------------------------------------------------- C30
\* the subprocesses that run and have been sent a signal, in order of creation
Signalled(ps) ==
  LET running(x) == x.state = "running"
      live == SelectSeq(ps, running)
  IN [i \in DOMAIN live |-> live[i].killed]

\* the step is a stop() of the agent (room.destroy() calls it)
Stops == hasAgent /\ last'.op = "destroy"

\* C30: stop() ends with status stopped and no subprocess handle, whether the
\* agent held a live subprocess, one that has exited, or none; a call made
\* when no handle is held sends no signal, and a call that follows another
\* changes nothing.
C30_StopIsIdempotent ==
  [][Stops =>
       /\ agentStatus' = "stopped" /\ process' = NoProc
       /\ process = NoProc => Signalled(procs') = Signalled(procs)
       /\ last.op = "destroy" => UNCHANGED <<agentStatus, process, procs, status>>]_vars

\* stop() was called on an agent whose subprocess was live: the subprocess was
\* sent a signal, and the agent is stopped without a handle
C30_Witness ==
  /\ hasAgent /\ last.op = "destroy"
  /\ agentStatus = "stopped" /\ process = NoProc
  /\ \E p \in DOMAIN procs : procs[p].state = "running" /\ procs[p].killed

\* ---------------------------------------------------------------- C31
StoppedAlive(p) ==
  /\ p \in DOMAIN sess.procs
  /\ sess.procs[p].stopped /\ sess.procs[p].state = "running"

KilledOrExited(p) ==
  /\ p \in DOMAIN sess.procs
  /\ sess.procs[p].forced \/ sess.procs[p].state = "exited"

\* C31: a subprocess that stop() was stopping and that keeps running is
\* eventually sent SIGKILL, unless it exits first.
C31_GraceThenKill ==
  \A p \in SessionProcs :
    StoppedAlive(p) ~> KilledOrExited(p)

\* ---------------------------------------------------------------- C40
\* C40: the timer armed by stop() signals no subprocess other than the one
\* that stop() was stopping.
C40_TimerKillsOwnTarget ==
  sess.last.op = "forceKill" =>
    sess.last.signalled \in {NoProc, sess.last.target}

\* C32: once a stream of complete lines has been delivered, the events emitted
\* are those of its non-blank lines, one per line and in order, however the
\* stream was cut into chunks, in the interactive and in the one-shot strategy
Delivered == stdio.strategy # "none" /\ stdio.rest = <<>>
Terminated(text) == text = <<>> \/ text[Len(text)] = NL
C32_ChunkingIsInvisible ==
  Delivered /\ Terminated(stdio.input)
    => stdio.events = handleLines(Front(split(stdio.input)))

\* a call that is in flight and is no longer the room's current request:
\* resetStatus took currentRequest away from it
Superseded(r) == reqs[r].state = "inflight" /\ currentRequest # r

\* the step leaves the status, the history and a current request in place, and
\* does not signal a subprocess that serves another call
LeavesRoomTo(r) ==
  /\ status' = status
  /\ messages' = messages
  /\ currentRequest # NoReq => currentRequest' # NoReq
  /\ (process # NoProc /\ procs[process].state = "running" /\ ~procs[process].killed
        /\ procs[process].req # r)
       => (process' # NoProc /\ ~procs'[process'].killed)

\* C33: the timeout, the cancellation or the completion of a call that
\* resetStatus superseded changes neither the room's status nor its history,
\* does not clear the current request of a newer call and does not signal the
\* subprocess of a newer call
C33_SupersededIsInert ==
  [][\A r \in DOMAIN reqs :
       (/\ Superseded(r)
        /\ \/ TimeoutFires(r)
           \/ CancelPoll(r)
           \/ \E p \in DOMAIN procs : procs[p].req = r /\ ProcClose(p))
         => LeavesRoomTo(r)]_vars

\* C34: when the one-shot subprocess of a call that has settled as cancelled or
\* timed out closes, no agent message is appended to the history and no message
\* event is broadcast
C34_NoLateAgentMessage ==
  [][\A p \in DOMAIN procs :
       (/\ procs[p].mode = "oneshot" /\ procs[p].req = Stale
        /\ procs[p].state = "running"
        /\ ProcClose(p))
         => (messages' = messages /\ \A i \in DOMAIN out' : out'[i].type # "message")]_vars

\* C35: a forced removeWorktree of a record that createWorktree made, whose
\* directory exists and whose native git removal failed, returns true with the
\* directory removed and the record dropped: no check rejects the path
C35_ForcedRemovalCompletes ==
  [][\A w \in Workspaces :
       (/\ gitLast'.op = "removeWorktree" /\ gitLast'.ws = w /\ gitLast'.manual
        /\ worktrees[w] # NoRecord
        /\ disk[worktrees[w].path[Len(worktrees[w].path)]] = "dir")
         => /\ gitLast'.ret = "true"
            /\ worktrees'[w] = NoRecord
            /\ disk'[worktrees[w].path[Len(worktrees[w].path)]] = "absent"]_vars

\* C36: a room leaves the registry only destroyed, with its agent stopped, also
\* when it was registered while destroyAll was awaiting; and the sweep of
\* destroyAll removes no worktree of a room whose agent is running
C36_NoRoomDropped ==
  [][\A r \in ServerRoomIds :
       /\ (r \in srv.rooms /\ r \notin srv'.rooms)
            => (srv'.room[r].destroyed > 0 /\ srv'.room[r].agent # "running")
       /\ (srv.all.phase = "sweeping" /\ r \in srv.dirs /\ r \notin srv'.dirs)
            => srv.room[r].agent # "running"]_vars

\* C37: whatever destroyRoom calls overlap, the agent of a room is stopped at
\* most once, each observer is handed at most one room_closed event and
\* roomDestroyed is emitted at most once for the room
C37_DestroyedOnce ==
  \A r \in ServerRoomIds :
    /\ srv.room[r].stops <= 1
    /\ srv.room[r].destroyed <= 1
    /\ \A c \in Conns : srv.room[r].notified[c] <= 1

\* C38: every observer of every room is a connection the gateway holds
C38_ObserversAreConnected ==
  \A r \in ServerRoomIds : \A c \in srv.room[r].clients :
    srv.conns[c].state = "connected"

\* the step belongs to the destruction of room a: a turn of destroyRoom(a), or
\* the 'close' event of a connection that a's destroy closed
Destroys(a) ==
  \/ srv'.last.op \in {"destroyRoom", "destroyed"} /\ srv'.last.room = a
  \/ /\ srv'.last.op = "disconnect"
     /\ \E c \in Conns : /\ srv.conns[c].state = "connected"
                         /\ srv'.conns[c].state = "gone"
                         /\ srv.conns[c].closedBy = {a}

\* C39: the destruction of a room leaves the observers, the history and the
\* status of every other room as they were
C39_OtherRoomsUntouched ==
  [][\A a \in ServerRoomIds : \A b \in ServerRoomIds \ {a} :
       Destroys(a) => /\ srv'.room[b].clients = srv.room[b].clients
                      /\ srv'.room[b].history = srv.room[b].history
                      /\ srv'.room[b].status = srv.room[b].status]_vars

====
